---------------------------- MODULE Spec2Model ----------------------------
(***************************************************************************)
(* A model of the dataset generator's text pipeline: the word-count        *)
(* chunker (TextProcessor.split_by_word_count) and the delimiter-driven    *)
(* response parser (TextProcessor.parse_qa_response).                      *)
(*                                                                         *)
(* A Python str is modelled as a sequence of one-character strings, so     *)
(* that substring search, str.split, str.strip, str.lower and the two      *)
(* regular expressions of the parser are computed character by character,  *)
(* as the interpreter computes them.                                       *)
(***************************************************************************)
EXTENDS Integers, Sequences, FiniteSets, TLC

VARIABLES
    pc,               \* position of the running function
    text,             \* split_by_word_count: its argument text
    words_per_chunk,  \* split_by_word_count: its argument words_per_chunk
    words,            \* split_by_word_count: words = text.split()
    i,                \* split_by_word_count: the loop variable of range(...)
    chunks,           \* split_by_word_count: the list chunks
    preamble,         \* the response as the model wrote it: before the first segment
    segments,         \* the response as the model wrote it: its segments
    response_text,    \* parse_qa_response: its argument response_text
    num_exchanges,    \* parse_qa_response: its argument num_exchanges
    parts,            \* parse_qa_response: response_text.split('CONVERSATION')[1:]
    part_no,          \* parse_qa_response: how many parts the for loop has consumed
    conversations,    \* parse_qa_response: the list conversations
    model_format,     \* format_for_model: its argument model_format
    conv_no,          \* format_for_model: how many conversations the loop has consumed
    formatted_examples, \* format_for_model: the list formatted_examples
    custom_prompt,    \* generate_dataset: config['custom_prompt']
    chunk_no,         \* generate_dataset: how many chunks the loop has finished
    attempt,          \* generate_qa_pairs: the loop variable attempt
    generated_examples, \* generate_dataset: the list generated_examples
    log,              \* the provider calls and the sleeps of the run, in order
    output_file,      \* generate_intj_dataset: the file self.output_file on disk
    mode,             \* generate_intj_dataset: the mode the file is opened with
    successful_chunks, \* generate_intj_dataset: counter
    failed_chunks,    \* generate_intj_dataset: counter
    total_examples,   \* generate_intj_dataset: counter
    example_no        \* generate_intj_dataset: how many examples of the chunk are written

vars == <<pc, text, words_per_chunk, words, i, chunks, preamble, segments,
          response_text, num_exchanges, parts, part_no, conversations,
          model_format, conv_no, formatted_examples, custom_prompt, chunk_no,
          attempt, generated_examples, log, output_file, mode,
          successful_chunks, failed_chunks, total_examples, example_no>>

chunkerVars == <<text, words_per_chunk, words, i, chunks>>
parserVars == <<preamble, segments, response_text, num_exchanges, parts,
                part_no, conversations>>
formatterVars == <<model_format, conv_no, formatted_examples>>
runVars == <<custom_prompt, chunk_no, attempt, generated_examples, log>>
intjVars == <<output_file, mode, successful_chunks, failed_chunks,
              total_examples, example_no>>

\* the variables of a function that is not running
ChunkerIdle ==
    text = <<>> /\ words_per_chunk = 1 /\ words = <<>> /\ i = 0 /\ chunks = <<>>
ParserIdle ==
    /\ preamble = <<>> /\ segments = <<>> /\ response_text = <<>>
    /\ num_exchanges = 1 /\ parts = <<>> /\ part_no = 0 /\ conversations = <<>>
FormatterIdle ==
    model_format = "" /\ conv_no = 0 /\ formatted_examples = <<>>
RunIdle ==
    /\ custom_prompt = <<>> /\ chunk_no = 0 /\ attempt = 0
    /\ generated_examples = <<>> /\ log = <<>>
IntjIdle ==
    /\ output_file = [exists |-> FALSE, lines |-> <<>>] /\ mode = ""
    /\ successful_chunks = 0 /\ failed_chunks = 0 /\ total_examples = 0
    /\ example_no = 0

----------------------------------------------------------------------------
(* Bounds of the model.                                                    *)

\* longest text, in characters, the chunker is run on
MaxTextLen == 5
\* largest words_per_chunk the chunker is run with
MaxWordsPerChunk == 3
\* most CONVERSATION segments in a generated response
MaxSegments == 3
\* largest num_exchanges the parser is run with
MaxExchanges == 3
\* most conversations in a list handed to the formatter
MaxConversations == 2
\* most chunks in the document of a run
MaxChunks == 2

----------------------------------------------------------------------------
(* Python str primitives, on sequences of characters.                      *)

\* the characters str.strip(), str.split() and the regex class \s remove
Whitespace == {" ", "\n", "\t"}

\* the regex class [0-9]
Digits == {"0", "1", "2", "3", "4", "5", "6", "7", "8", "9"}

\* str.lower() on one character
LowerCaseOf ==
    [c \in {"A","B","C","D","E","F","G","H","I","J","K","L","M",
            "N","O","P","Q","R","S","T","U","V","W","X","Y","Z"} |->
       CASE c = "A" -> "a" [] c = "B" -> "b" [] c = "C" -> "c" [] c = "D" -> "d"
         [] c = "E" -> "e" [] c = "F" -> "f" [] c = "G" -> "g" [] c = "H" -> "h"
         [] c = "I" -> "i" [] c = "J" -> "j" [] c = "K" -> "k" [] c = "L" -> "l"
         [] c = "M" -> "m" [] c = "N" -> "n" [] c = "O" -> "o" [] c = "P" -> "p"
         [] c = "Q" -> "q" [] c = "R" -> "r" [] c = "S" -> "s" [] c = "T" -> "t"
         [] c = "U" -> "u" [] c = "V" -> "v" [] c = "W" -> "w" [] c = "X" -> "x"
         [] c = "Y" -> "y" [] c = "Z" -> "z"]

\* str.lower()
Lower(s) ==
    [k \in 1..Len(s) |-> IF s[k] \in DOMAIN LowerCaseOf THEN LowerCaseOf[s[k]] ELSE s[k]]

\* the least j in lo..hi with flags[j], 0 when there is none
LeastTrue(flags, lo, hi) ==
    IF \E j \in lo..hi : flags[j]
    THEN CHOOSE j \in lo..hi : flags[j] /\ \A m \in lo..(j - 1) : ~flags[m]
    ELSE 0

\* the greatest j in lo..hi with flags[j], 0 when there is none
GreatestTrue(flags, lo, hi) ==
    IF \E j \in lo..hi : flags[j]
    THEN CHOOSE j \in lo..hi : flags[j] /\ \A m \in (j + 1)..hi : ~flags[m]
    ELSE 0

RECURSIVE TrueIndices(_, _, _)
\* the j in lo..hi with flags[j], in increasing order (collected by halves)
TrueIndices(flags, lo, hi) ==
    IF lo > hi THEN <<>>
    ELSE IF lo = hi THEN (IF flags[lo] THEN <<lo>> ELSE <<>>)
    ELSE LET mid == (lo + hi) \div 2
         IN  TrueIndices(flags, lo, mid) \o TrueIndices(flags, mid + 1, hi)

\* pat occurs in s at index k
Occurs(s, pat, k) ==
    /\ k >= 1
    /\ k + Len(pat) - 1 <= Len(s)
    /\ \A j \in 1..Len(pat) : s[k + j - 1] = pat[j]

\* str.find: the least index >= k at which pat occurs in s, 0 when there is none
Find(s, pat, k) == LeastTrue([j \in 1..Len(s) |-> Occurs(s, pat, j)], k, Len(s))

\* the operator "pat in s"
Contains(s, pat) == Find(s, pat, 1) # 0

\* s[k:] (k counted from 1)
From(s, k) == SubSeq(s, k, Len(s))

\* str.split(sep, 1): one list element when sep is absent, two otherwise
SplitOnce(s, sep) ==
    LET k == Find(s, sep, 1)
    IN  IF k = 0 THEN <<s>>
        ELSE <<SubSeq(s, 1, k - 1), From(s, k + Len(sep))>>

\* str.split(sep) for a separator no proper prefix of which is also its
\* suffix (' ' and 'CONVERSATION' are such): its occurrences cannot overlap,
\* so each of them, left to right, separates two elements of the result
SplitAll(s, sep) ==
    LET hits == TrueIndices([j \in 1..Len(s) |-> Occurs(s, sep, j)], 1, Len(s))
        n == Len(hits)
    IN  [p \in 1..(n + 1) |->
           SubSeq(s,
                  IF p = 1 THEN 1 ELSE hits[p - 1] + Len(sep),
                  IF p = n + 1 THEN Len(s) ELSE hits[p] - 1)]

\* str.strip()
Strip(s) ==
    LET inner == [j \in 1..Len(s) |-> s[j] \notin Whitespace]
        a == LeastTrue(inner, 1, Len(s))
        b == GreatestTrue(inner, 1, Len(s))
    IN  IF a = 0 THEN <<>> ELSE SubSeq(s, a, b)

RECURSIVE WordsBetween(_, _, _)
\* the words of s[lo..hi], a stretch that cuts through no word: the stretch
\* is cut at the whitespace character nearest its middle and the words of
\* the two sides are concatenated (the result of scanning left to right,
\* evaluated to a depth logarithmic in the number of words)
WordsBetween(s, lo, hi) ==
    IF lo > hi THEN <<>>
    ELSE LET mid == (lo + hi) \div 2
             blank == [j \in 1..Len(s) |-> s[j] \in Whitespace]
             right == LeastTrue(blank, mid, hi)
             left == GreatestTrue(blank, lo, mid)
             cut == IF right = 0 THEN left
                    ELSE IF left = 0 THEN right
                    ELSE IF right - mid <= mid - left THEN right ELSE left
         IN  IF cut = 0 THEN <<SubSeq(s, lo, hi)>>
             ELSE WordsBetween(s, lo, cut - 1) \o WordsBetween(s, cut + 1, hi)

\* text.split(' '): cuts at single spaces only, keeping empty strings
SplitSingleSpace(s) == SplitAll(s, <<" ">>)

\* str.split() with no separator: the maximal runs of non-whitespace
\* characters, in order; no empty strings
SplitWhitespace(s) == WordsBetween(s, 1, Len(s))

RECURSIVE JoinRange(_, _, _, _)
\* sep.join(ws[lo..hi]), by halves
JoinRange(ws, lo, hi, sep) ==
    IF lo > hi THEN <<>>
    ELSE IF lo = hi THEN ws[lo]
    ELSE LET mid == (lo + hi) \div 2
         IN  JoinRange(ws, lo, mid, sep) \o sep \o JoinRange(ws, mid + 1, hi, sep)

\* ' '.join(ws)
JoinSpace(ws) == JoinRange(ws, 1, Len(ws), <<" ">>)

\* the concatenation of a sequence of sequences
Flatten(ss) == JoinRange(ss, 1, Len(ss), <<>>)

----------------------------------------------------------------------------
(* TextProcessor.split_by_word_count                                       *)

\* words[i:i + words_per_chunk - 1]: a window one word short
WordSliceShort(ws, k, n) ==
    SubSeq(ws, k + 1, IF k + n - 1 < Len(ws) THEN k + n - 1 ELSE Len(ws))

\* words[i:i + words_per_chunk]
WordSlice(ws, k, n) == SubSeq(ws, k + 1, IF k + n < Len(ws) THEN k + n ELSE Len(ws))

\* the chunk the loop body builds for index k: ' '.join(words[k:k + n]).strip()
ChunkOf(ws, k, n) == Strip(JoinSpace(WordSlice(ws, k, n)))

\* the characters of the bounded input texts: two letters and two separators
TextAlphabet == {"a", "b", " ", "\n"}

RECURSIVE SeqsUpTo(_, _)
\* every sequence over set of length at most n
SeqsUpTo(set, n) ==
    IF n = 0 THEN {<<>>}
    ELSE LET shorter == SeqsUpTo(set, n - 1)
         IN  shorter \cup {Append(s, c) : s \in {t \in shorter : Len(t) = n - 1}, c \in set}

\* a 250-word document: the word "w" 250 times, separated by single spaces
ScenarioText == [k \in 1..499 |-> IF k % 2 = 1 THEN "w" ELSE " "]

\* the (text, words_per_chunk) pairs the chunker is run on
ChunkInputs ==
    (SeqsUpTo(TextAlphabet, MaxTextLen) \X (1..MaxWordsPerChunk))
        \cup {<<ScenarioText, 100>>}

ChunkInit ==
    /\ pc = "split_by_word_count"
    /\ \E inp \in ChunkInputs : text = inp[1] /\ words_per_chunk = inp[2]
    /\ words = <<>>
    /\ i = 0
    /\ chunks = <<>>
    /\ ParserIdle /\ FormatterIdle /\ RunIdle /\ IntjIdle

\* words = text.split(); chunks = []
ChunkSplitWords ==
    /\ pc = "split_by_word_count"
    /\ words' = SplitWhitespace(text)
    /\ i' = 0
    /\ chunks' = <<>>
    /\ pc' = "chunk_loop"
    /\ UNCHANGED <<text, words_per_chunk, parserVars, formatterVars, runVars,
                   intjVars>>

\* one iteration of: for i in range(0, len(words), words_per_chunk)
ChunkLoopBody ==
    /\ pc = "chunk_loop"
    /\ i < Len(words)
    /\ LET chunk == ChunkOf(words, i, words_per_chunk)
       IN  chunks' = IF chunk # <<>> THEN Append(chunks, chunk) ELSE chunks
    /\ i' = i + words_per_chunk
    /\ UNCHANGED <<pc, text, words_per_chunk, words, parserVars, formatterVars,
                   runVars, intjVars>>

\* the range is exhausted: return chunks
ChunkReturn ==
    /\ pc = "chunk_loop"
    /\ i >= Len(words)
    /\ pc' = "chunk_done"
    /\ UNCHANGED <<chunkerVars, parserVars, formatterVars, runVars, intjVars>>

ChunkNext == ChunkSplitWords \/ ChunkLoopBody \/ ChunkReturn

SpecChunk == ChunkInit /\ [][ChunkNext]_vars

----------------------------------------------------------------------------
(* Claims about split_by_word_count.                                       *)

\* the whitespace-delimited words of s, stated by their boundaries: a word
\* starts at a non-whitespace character that begins s or follows whitespace,
\* and runs up to the last character before the next whitespace
WordsOf(s) ==
    LET starts == TrueIndices([k \in 1..Len(s) |->
                     s[k] \notin Whitespace /\ (k = 1 \/ s[k - 1] \in Whitespace)],
                     1, Len(s))
        ends == TrueIndices([k \in 1..Len(s) |->
                     s[k] \notin Whitespace /\ (k = Len(s) \/ s[k + 1] \in Whitespace)],
                     1, Len(s))
    IN  [j \in 1..Len(starts) |-> SubSeq(s, starts[j], ends[j])]

\* chunk.split(' ') for every chunk, concatenated in chunk order
ChunkWords == Flatten([k \in 1..Len(chunks) |-> SplitAll(chunks[k], <<" ">>)])

Min(a, b) == IF a < b THEN a ELSE b

\* C1: the words of the chunks, each chunk split on single spaces and the
\* results concatenated in chunk order, are exactly the whitespace-delimited
\* words of the input: once the loop has passed index i, they are the first
\* i words, and on return they are all of them, none dropped, duplicated or
\* reordered.
C1_ChunksReproduceWords ==
    pc \in {"chunk_loop", "chunk_done"} =>
        LET all == WordsOf(text)
        IN  /\ ChunkWords = SubSeq(all, 1, Min(i, Len(all)))
            /\ pc = "chunk_done" => ChunkWords = all

\* a run that returned two chunks, the last one short, from a text whose
\* words are separated by a newline and by a space
C1_Witness ==
    /\ pc = "chunk_done"
    /\ text = <<"a", "\n", "b", " ", "a">>
    /\ words_per_chunk = 2
    /\ chunks = << <<"a", " ", "b">>, <<"a">> >>

CeilDiv(a, b) == (a + b - 1) \div b

\* the number of words of every chunk
ChunkSizes == [k \in 1..Len(chunks) |-> Len(SplitAll(chunks[k], <<" ">>))]

\* C2: a text of W words split with words_per_chunk = n gives ceil(W / n)
\* chunks, each but the last of exactly n words and the last of 1..n words;
\* 250 words with n = 100 give sizes [100, 100, 50]; a text without words
\* gives the empty list.
C2_ChunkCountAndSizes ==
    pc = "chunk_done" =>
        LET W == Len(WordsOf(text))
            n == words_per_chunk
        IN  /\ Len(chunks) = CeilDiv(W, n)
            /\ \A k \in 1..Len(chunks) - 1 : ChunkSizes[k] = n
            /\ chunks # <<>> =>
                 /\ ChunkSizes[Len(chunks)] >= 1
                 /\ ChunkSizes[Len(chunks)] <= n
                 /\ ChunkSizes[Len(chunks)] = W - n * (Len(chunks) - 1)
            /\ W = 0 => chunks = <<>>
            /\ (text = ScenarioText /\ n = 100) => ChunkSizes = <<100, 100, 50>>

\* the 250-word scenario has returned its three chunks
C2_Witness ==
    /\ pc = "chunk_done"
    /\ text = ScenarioText
    /\ words_per_chunk = 100
    /\ Len(chunks) = 3

----------------------------------------------------------------------------
(* TextProcessor.parse_qa_response                                         *)

\* 'CONVERSATION'
CONVERSATION == <<"C","O","N","V","E","R","S","A","T","I","O","N">>
\* 'QUESTION:'
QUESTION == <<"Q","U","E","S","T","I","O","N",":">>
\* 'ANSWER:'
ANSWER == <<"A","N","S","W","E","R",":">>
\* 'FOLLOW-UP:'
FOLLOW_UP == <<"F","O","L","L","O","W","-","U","P",":">>
\* 'FOLLOW-UP ANSWER:'
FOLLOW_UP_ANSWER ==
    <<"F","O","L","L","O","W","-","U","P"," ","A","N","S","W","E","R",":">>

\* re.sub(r'^[0-9]+\.?\s*', '', s): a leading run of digits, then one period
\* if there is one, then the whitespace that follows, are removed; a string
\* that does not start with a digit is returned as it is
StripEnumPrefix(s) ==
    LET nondigit == LeastTrue([j \in 1..Len(s) |-> s[j] \notin Digits], 1, Len(s))
        afterDigits == IF nondigit = 0 THEN Len(s) + 1 ELSE nondigit
        afterDot == IF afterDigits <= Len(s) /\ s[afterDigits] = "."
                    THEN afterDigits + 1 ELSE afterDigits
        nonblank == LeastTrue([j \in 1..Len(s) |-> s[j] \notin Whitespace],
                              afterDot, Len(s))
    IN  IF afterDigits = 1 THEN s
        ELSE IF nonblank = 0 THEN <<>>
        ELSE From(s, nonblank)

\* re.sub(r'\n\n\n+', '\n\n\n', s): the pattern one newline too long, so that
\* runs are cut down to three newlines
CollapseNewlinesToThree(s) ==
    LET kept == TrueIndices(
                  [j \in 1..Len(s) |->
                     ~(/\ s[j] = "\n" /\ j >= 4 /\ s[j - 1] = "\n"
                       /\ s[j - 2] = "\n" /\ s[j - 3] = "\n")],
                  1, Len(s))
    IN  [j \in 1..Len(kept) |-> s[kept[j]]]

\* re.sub(r'\n\n+', '\n\n', s): every maximal run of two or more newlines
\* becomes two newlines, that is, the third and later newline of a run go
CollapseNewlines(s) ==
    LET kept == TrueIndices(
                  [j \in 1..Len(s) |->
                     ~(s[j] = "\n" /\ j >= 3 /\ s[j - 1] = "\n" /\ s[j - 2] = "\n")],
                  1, Len(s))
    IN  [j \in 1..Len(kept) |-> s[kept[j]]]

\* the question normalization without .lower()
NormalizeQuestionKeepCase(question_part) ==
    Strip(StripEnumPrefix(Strip(question_part)))

\* question = question_part.strip()
\* question = re.sub(r'^[0-9]+\.?\s*', '', question).strip().lower()
NormalizeQuestion(question_part) ==
    Lower(Strip(StripEnumPrefix(Strip(question_part))))

\* the answer normalization with the .lower() of the questions
NormalizeAnswerLowered(answer_part) ==
    Lower(Strip(CollapseNewlines(Strip(answer_part))))

\* answer = answer_part.strip()
\* answer = re.sub(r'\n\n+', '\n\n', answer).strip()
NormalizeAnswer(answer_part) ==
    Strip(CollapseNewlines(Strip(answer_part)))

\* the append without its guard "if question and answer ..."
EmitAlways(conv) == <<conv>>

\* if question and answer [and followup_question and followup_answer]:
\*     conversations.append({...})
EmitIfComplete(conv) ==
    IF \A f \in DOMAIN conv : conv[f] # <<>> THEN <<conv>> ELSE <<>>

\* the branch num_exchanges == 1 of the loop body: what it appends for part
ParseSingle(part) ==
    IF Contains(part, QUESTION) /\ Contains(part, ANSWER) THEN
        LET sections == SplitOnce(part, QUESTION)[2]
        IN  IF Contains(sections, ANSWER) THEN
                LET qa == SplitOnce(sections, ANSWER)
                IN  EmitIfComplete([question |-> NormalizeQuestion(qa[1]),
                                    answer |-> NormalizeAnswer(qa[2])])
            ELSE <<>>
    ELSE <<>>

\* the else branch falling back to the first exchange when the follow-up
\* delimiters are missing
ParseMultiPartial(part) ==
    IF Contains(part, QUESTION) /\ Contains(part, ANSWER) THEN
        LET sections == SplitOnce(part, QUESTION)[2]
        IN  IF Contains(sections, ANSWER) THEN
                LET qr == SplitOnce(sections, ANSWER)
                    af == SplitOnce(qr[2], FOLLOW_UP)
                IN  IF Len(af) = 2 /\ Contains(af[2], FOLLOW_UP_ANSWER) THEN
                        LET ff == SplitOnce(af[2], FOLLOW_UP_ANSWER)
                        IN  EmitIfComplete(
                              [question |-> NormalizeQuestion(qr[1]),
                               answer |-> NormalizeAnswer(af[1]),
                               followup_question |-> NormalizeQuestion(ff[1]),
                               followup_answer |-> NormalizeAnswer(ff[2])])
                    ELSE EmitIfComplete([question |-> NormalizeQuestion(qr[1]),
                                         answer |-> NormalizeAnswer(qr[2])])
            ELSE <<>>
    ELSE <<>>

\* the else branch (multi-exchange) of the loop body: what it appends for part
ParseMulti(part) ==
    IF Contains(part, QUESTION) /\ Contains(part, ANSWER) THEN
        LET sections == SplitOnce(part, QUESTION)[2]
        IN  IF Contains(sections, ANSWER) THEN
                LET qr == SplitOnce(sections, ANSWER)
                    rest == qr[2]
                IN  IF Contains(rest, FOLLOW_UP) THEN
                        LET af == SplitOnce(rest, FOLLOW_UP)
                            followup_rest == af[2]
                        IN  IF Contains(followup_rest, FOLLOW_UP_ANSWER) THEN
                                LET ff == SplitOnce(followup_rest, FOLLOW_UP_ANSWER)
                                IN  EmitIfComplete(
                                      [question |-> NormalizeQuestion(qr[1]),
                                       answer |-> NormalizeAnswer(af[1]),
                                       followup_question |-> NormalizeQuestion(ff[1]),
                                       followup_answer |-> NormalizeAnswer(ff[2])])
                            ELSE <<>>
                    ELSE <<>>
            ELSE <<>>
    ELSE <<>>

\* the body of "for part in parts": the conversations it appends for part.
\* Every split(sep, 1) it unpacks is guarded by "sep in ...", so nothing in
\* the try block raises on a str and the except branch is never taken.
ParsePart(part, n) == IF n = 1 THEN ParseSingle(part) ELSE ParseMulti(part)

\* the try block of the loop body: whether one of its statements raises on
\* part.  The statements that can raise on a str are the subscript [1] of a
\* split (IndexError when the split has one element) and the unpacking of a
\* split into two names (ValueError when it has not two elements).
PartRaises(part, n) ==
    /\ Contains(part, QUESTION) /\ Contains(part, ANSWER)
    /\ LET first == SplitOnce(part, QUESTION)
       IN  \/ Len(first) < 2
           \/ /\ Contains(first[2], ANSWER)
              /\ LET qr == SplitOnce(first[2], ANSWER)
                 IN  \/ Len(qr) # 2
                     \/ /\ n # 1
                        /\ Contains(qr[2], FOLLOW_UP)
                        /\ LET af == SplitOnce(qr[2], FOLLOW_UP)
                           IN  \/ Len(af) # 2
                               \/ /\ Contains(af[2], FOLLOW_UP_ANSWER)
                                  /\ Len(SplitOnce(af[2], FOLLOW_UP_ANSWER)) # 2

\* response_text.split('CONVERSATION'): the part before the first token kept
ConversationPartsKeepFirst(r) == SplitAll(r, CONVERSATION)

\* response_text.split('CONVERSATION', 1)[1:]: cut at the first token only
ConversationPartsOnce(r) == Tail(SplitOnce(r, CONVERSATION))

\* response_text.split('CONVERSATION')[1:]
ConversationParts(r) == Tail(SplitAll(r, CONVERSATION))

----------------------------------------------------------------------------
(* The responses the parser is run on.  A response is a preamble followed  *)
(* by segments; a segment is the token CONVERSATION, a header, and then a  *)
(* delimiter and a text for every entry of its shape, as the format block  *)
(* of create_prompt_template asks the model to write them.                 *)

\* the delimiter a shape entry stands for
DelimiterOf(d) ==
    CASE d = "Q" -> QUESTION
      [] d = "A" -> ANSWER
      [] d = "F" -> FOLLOW_UP
      [] d = "FA" -> FOLLOW_UP_ANSWER

\* the shape the prompt asks for with one exchange, and with two
ShapeSingle == <<"Q", "A">>
ShapeMulti == <<"Q", "A", "F", "FA">>

\* the other orders and subsets of the delimiters a model may write
OtherShapes ==
    { <<"Q">>,                          \* QUESTION: but no ANSWER:
      <<"A", "Q">>,                     \* ANSWER: before QUESTION:
      <<"Q", "A", "F">>,                \* no FOLLOW-UP ANSWER:
      <<"Q", "A", "FA">>,               \* no FOLLOW-UP:
      <<"Q", "F", "FA">>,               \* ANSWER: only inside FOLLOW-UP ANSWER:
      <<"A", "F", "FA">>,               \* no QUESTION:
      <<"F", "FA", "Q", "A">>,          \* the follow-up pair first
      <<"Q", "A", "F", "FA", "FA">>,    \* FOLLOW-UP ANSWER: twice
      << >> }                           \* no delimiter at all

\* " What is X?\n", " X is Y.\n", " Why so?\n", " By Z.\n"
PlainTexts ==
    [q  |-> <<" ","W","h","a","t"," ","i","s"," ","X","?","\n">>,
     a  |-> <<" ","X"," ","i","s"," ","Y",".","\n">>,
     fq |-> <<" ","W","h","y"," ","s","o","?","\n">>,
     fa |-> <<" ","B","y"," ","Z",".","\n">>]

\* " 1. text\n", " a\n\n\nb\n", " 12.next\n", " c\nd\n\ne\n\n\n\nf\n":
\* enumerated questions, answers with runs of one to four newlines
EnumeratedTexts ==
    [q  |-> <<" ","1","."," ","t","e","x","t","\n">>,
     a  |-> <<" ","a","\n","\n","\n","b","\n">>,
     fq |-> <<" ","1","2",".","n","e","x","t","\n">>,
     fa |-> <<" ","c","\n","d","\n","\n","e","\n","\n","\n","\n","f","\n">>]

\* " 2) text\n" and " 3)x\n": questions enumerated with a parenthesis
ParenTexts ==
    [PlainTexts EXCEPT !.q = <<" ","2",")"," ","t","e","x","t","\n">>,
                       !.fq = <<" ","3",")","x","\n">>]

\* " 1. 2. T\n" and " 3 4 u\n": questions that keep a digit after the prefix
DoubleEnumTexts ==
    [PlainTexts EXCEPT !.q = <<" ","1","."," ","2","."," ","T","\n">>,
                       !.fq = <<" ","3"," ","4"," ","u","\n">>]

\* " 7.\n": a question that is nothing but an enumeration prefix
DigitQuestionTexts == [PlainTexts EXCEPT !.q = <<" ","7",".","\n">>]

\* " \n": an answer of whitespace only
BlankAnswerTexts == [PlainTexts EXCEPT !.a = <<" ","\n">>]

\* " 10\n": a follow-up question that is nothing but digits
DigitFollowUpTexts == [PlainTexts EXCEPT !.fq = <<" ","1","0","\n">>]

\* "\n\n": a follow-up answer of newlines only
BlankFollowUpAnswerTexts == [PlainTexts EXCEPT !.fa = <<"\n","\n">>]

\* " see CONVERSATION 2\n": an answer that names the segment token
TokenAnswerTexts ==
    [PlainTexts EXCEPT !.a = <<" ","s","e","e"," ","C","O","N","V","E","R","S",
                               "A","T","I","O","N"," ","2","\n">>]

OtherTexts ==
    {EnumeratedTexts, ParenTexts, DoubleEnumTexts, DigitQuestionTexts,
     BlankAnswerTexts, DigitFollowUpTexts, BlankFollowUpAnswerTexts,
     TokenAnswerTexts}

Segment(shape, texts) == [shape |-> shape, texts |-> texts]

\* every segment a one-segment response is made of: the two shapes the
\* prompt asks for with every text variant, every other shape with the
\* plain texts
SegmentPool ==
    {Segment(sh, t) : sh \in {ShapeSingle, ShapeMulti}, t \in {PlainTexts} \cup OtherTexts}
        \cup {Segment(sh, PlainTexts) : sh \in OtherShapes}

\* the segments the longer responses are made of
CoreSegments ==
    {Segment(sh, t) : sh \in {ShapeSingle, ShapeMulti}, t \in {PlainTexts, EnumeratedTexts}}
        \cup {Segment(<<"Q">>, PlainTexts), Segment(<<"Q", "A", "F">>, PlainTexts)}

\* the text a shape entry is followed by
SlotText(texts, d) ==
    CASE d = "Q" -> texts.q
      [] d = "A" -> texts.a
      [] d = "F" -> texts.fq
      [] d = "FA" -> texts.fa

\* " 1:\n", what follows the token CONVERSATION
Header == <<" ","1",":","\n">>

\* the text of one segment
RenderSegment(seg) ==
    CONVERSATION \o Header \o
        Flatten([k \in 1..Len(seg.shape) |->
                   DelimiterOf(seg.shape[k]) \o SlotText(seg.texts, seg.shape[k])])

\* "", "Sure:\n" and "QUESTION: hi\nANSWER: yo\n": what the model writes
\* before the first segment
Preambles ==
    { << >>,
      <<"S","u","r","e",":","\n">>,
      QUESTION \o <<" ","h","i","\n">> \o ANSWER \o <<" ","y","o","\n">> }

\* the text of a response
RenderResponse(pre, segs) ==
    pre \o Flatten([k \in 1..Len(segs) |-> RenderSegment(segs[k])])

\* the segment lists of the responses: none, any one segment of the pool,
\* and up to MaxSegments core segments
SegmentLists ==
    {<<seg>> : seg \in SegmentPool} \cup SeqsUpTo(CoreSegments, MaxSegments)

ParseInit ==
    /\ pc = "parse_qa_response"
    /\ preamble \in Preambles
    /\ segments \in SegmentLists
    /\ response_text = RenderResponse(preamble, segments)
    /\ num_exchanges \in 0..MaxExchanges
    /\ parts = <<>>
    /\ part_no = 0
    /\ conversations = <<>>
    /\ ChunkerIdle /\ FormatterIdle /\ RunIdle /\ IntjIdle

\* conversations = []; parts = response_text.split('CONVERSATION')[1:]
ParseSplit ==
    /\ pc = "parse_qa_response"
    /\ conversations' = <<>>
    /\ parts' = ConversationParts(response_text)
    /\ part_no' = 0
    /\ pc' = "parse_loop"
    /\ UNCHANGED <<preamble, segments, response_text, num_exchanges, chunkerVars,
                   formatterVars, runVars, intjVars>>

\* the loop body with break where the code has continue: a part that gives
\* no conversation ends the loop
ParseLoopBodyStopsAtMiss ==
    /\ pc = "parse_loop"
    /\ part_no < Len(parts)
    /\ LET found == ParsePart(parts[part_no + 1], num_exchanges)
       IN  /\ conversations' = conversations \o found
           /\ part_no' = IF found = <<>> THEN Len(parts) ELSE part_no + 1
    /\ UNCHANGED <<pc, preamble, segments, response_text, num_exchanges, parts,
                   chunkerVars, formatterVars, runVars, intjVars>>

\* one iteration of: for part in parts
ParseLoopBody ==
    /\ pc = "parse_loop"
    /\ part_no < Len(parts)
    /\ conversations' = conversations \o ParsePart(parts[part_no + 1], num_exchanges)
    /\ part_no' = part_no + 1
    /\ UNCHANGED <<pc, preamble, segments, response_text, num_exchanges, parts,
                   chunkerVars, formatterVars, runVars, intjVars>>

\* the parts are exhausted: return conversations
ParseReturn ==
    /\ pc = "parse_loop"
    /\ part_no >= Len(parts)
    /\ pc' = "parse_done"
    /\ UNCHANGED <<parserVars, chunkerVars, formatterVars, runVars, intjVars>>

ParseNext == ParseSplit \/ ParseLoopBody \/ ParseReturn

SpecParse == ParseInit /\ [][ParseNext]_vars

----------------------------------------------------------------------------
(* Claims about parse_qa_response.                                         *)

\* the delimiter tokens of the response format
Delimiters == {CONVERSATION, QUESTION, ANSWER, FOLLOW_UP, FOLLOW_UP_ANSWER}

\* t contains no delimiter token
DelimiterFree(t) == \A d \in Delimiters : ~Contains(t, d)

\* the shape and the text slots a segment needs for n exchanges
RequiredShape(n) == IF n = 1 THEN ShapeSingle ELSE ShapeMulti
RequiredSlots(n) == IF n = 1 THEN {"q", "a"} ELSE {"q", "a", "fq", "fa"}

\* the text of a slot with the whitespace around it removed, and for a
\* question slot its leading enumeration prefix too
TrimmedSlot(seg, f) == Strip(seg.texts[f])
CleanedSlot(seg, f) ==
    IF f \in {"q", "fq"} THEN Strip(StripEnumPrefix(Strip(seg.texts[f])))
    ELSE Strip(seg.texts[f])

\* the segment holds, in order, the delimiter pairs of n exchanges, each
\* followed by a text that is not empty and holds no delimiter token
HoldsPairs(seg, n) ==
    /\ seg.shape = RequiredShape(n)
    /\ \A f \in RequiredSlots(n) :
          DelimiterFree(seg.texts[f]) /\ TrimmedSlot(seg, f) # <<>>

\* as HoldsPairs, and no text is empty once normalized: no question is a bare
\* enumeration prefix
WellFormed(seg, n) ==
    /\ seg.shape = RequiredShape(n)
    /\ \A f \in RequiredSlots(n) :
          DelimiterFree(seg.texts[f]) /\ CleanedSlot(seg, f) # <<>>

\* the newline runs of an answer text, trimmed, cut down to two newlines
RECURSIVE TwoNewlinesAtMost(_)
TwoNewlinesAtMost(t) ==
    LET three == Find(t, <<"\n", "\n", "\n">>, 1)
    IN  IF three = 0 THEN t
        ELSE TwoNewlinesAtMost(SubSeq(t, 1, three - 1) \o From(t, three + 1))

\* the conversation a well-formed segment stands for
ConversationOf(seg, n) ==
    IF n = 1
    THEN [question |-> Lower(CleanedSlot(seg, "q")),
          answer |-> TwoNewlinesAtMost(TrimmedSlot(seg, "a"))]
    ELSE [question |-> Lower(CleanedSlot(seg, "q")),
          answer |-> TwoNewlinesAtMost(TrimmedSlot(seg, "a")),
          followup_question |-> Lower(CleanedSlot(seg, "fq")),
          followup_answer |-> TwoNewlinesAtMost(TrimmedSlot(seg, "fa"))]

\* the conversations of the well-formed segments among segs, in order
RECURSIVE ConversationsOf(_, _)
ConversationsOf(segs, n) ==
    IF segs = <<>> THEN <<>>
    ELSE (IF WellFormed(Head(segs), n) THEN <<ConversationOf(Head(segs), n)>> ELSE <<>>)
            \o ConversationsOf(Tail(segs), n)

\* C3 as stated: a response of K segments, each holding in order non-empty
\* QUESTION:/ANSWER: texts (and FOLLOW-UP:/FOLLOW-UP ANSWER: texts for two
\* exchanges), returns exactly K conversations.
C3_Original ==
    (/\ pc = "parse_done"
     /\ num_exchanges \in {1, 2}
     /\ \A k \in 1..Len(segments) : HoldsPairs(segments[k], num_exchanges))
        => Len(conversations) = Len(segments)

\* C3, amended: a response of K segments, each holding in order the
\* delimiter pairs of the exchange depth with texts that hold no delimiter
\* token and are not empty after normalization, returns exactly K
\* conversations, the k-th one that of the k-th segment.
C3_WellFormedRoundTrip ==
    (/\ pc = "parse_done"
     /\ num_exchanges \in {1, 2}
     /\ \A k \in 1..Len(segments) : WellFormed(segments[k], num_exchanges))
        => /\ Len(conversations) = Len(segments)
           /\ \A k \in 1..Len(segments) :
                 conversations[k] = ConversationOf(segments[k], num_exchanges)

\* three well-formed two-exchange segments after a preamble have been parsed
C3_Witness ==
    /\ pc = "parse_done"
    /\ num_exchanges = 2
    /\ preamble # <<>>
    /\ segments = <<Segment(ShapeMulti, PlainTexts), Segment(ShapeMulti, EnumeratedTexts),
                    Segment(ShapeMulti, PlainTexts)>>
    /\ Len(conversations) = 3

\* part lacks a delimiter that n exchanges require
LacksRequired(part, n) ==
    \/ ~Contains(part, QUESTION)
    \/ ~Contains(part, ANSWER)
    \/ n > 1 /\ (~Contains(part, FOLLOW_UP) \/ ~Contains(part, FOLLOW_UP_ANSWER))

\* C4: the loop appends nothing for a part that lacks a delimiter the
\* exchange depth requires (QUESTION:, ANSWER:, and beyond one exchange
\* FOLLOW-UP: and FOLLOW-UP ANSWER:): no partial record is produced.
C4_NoYieldWithoutDelimiters ==
    [][(/\ pc = "parse_loop"
        /\ part_no' = part_no + 1
        /\ LacksRequired(parts[part_no + 1], num_exchanges))
          => conversations' = conversations]_vars

\* the loop has passed a part with QUESTION: but no ANSWER:, after a part
\* that gave a conversation
C4_Witness ==
    /\ pc = "parse_loop"
    /\ part_no = 2
    /\ Contains(parts[2], QUESTION)
    /\ ~Contains(parts[2], ANSWER)
    /\ Len(conversations) = 1

\* the segment misses a required delimiter, or holds the required pairs with
\* a text that is empty after normalization
Malformed(seg, n) ==
    \/ LacksRequired(RenderSegment(seg), n)
    \/ /\ seg.shape = RequiredShape(n)
       /\ \A f \in RequiredSlots(n) : DelimiterFree(seg.texts[f])
       /\ \E f \in RequiredSlots(n) : CleanedSlot(seg, f) = <<>>

\* C5: of a response that mixes well-formed and malformed segments the
\* parser returns exactly the conversations of the well-formed ones, in
\* order; a well-formed segment followed by one without FOLLOW-UP ANSWER:
\* gives one conversation with two exchanges.
C5_MalformedSegmentsSkipped ==
    (/\ pc = "parse_done"
     /\ num_exchanges \in {1, 2}
     /\ \A k \in 1..Len(segments) :
           WellFormed(segments[k], num_exchanges) \/ Malformed(segments[k], num_exchanges))
        => /\ conversations = ConversationsOf(segments, num_exchanges)
           /\ (/\ num_exchanges = 2
               /\ segments = <<Segment(ShapeMulti, PlainTexts),
                               Segment(<<"Q", "A", "F">>, PlainTexts)>>)
                 => Len(conversations) = 1

\* a segment without FOLLOW-UP ANSWER: between two well-formed ones
C5_Witness ==
    /\ pc = "parse_done"
    /\ num_exchanges = 2
    /\ segments = <<Segment(ShapeMulti, PlainTexts), Segment(<<"Q", "A", "F">>, PlainTexts),
                    Segment(ShapeMulti, EnumeratedTexts)>>
    /\ Len(conversations) = 2

\* "CONVERSATION 1:\nQUESTION: What is X?\nANSWER: X is Y.\n"
ScenarioResponse ==
    <<"C","O","N","V","E","R","S","A","T","I","O","N"," ","1",":","\n",
      "Q","U","E","S","T","I","O","N",":"," ","W","h","a","t"," ","i","s"," ","X","?","\n",
      "A","N","S","W","E","R",":"," ","X"," ","i","s"," ","Y",".","\n">>

\* C6 as stated: the scenario response parsed with one exchange gives one
\* conversation, question "what is x?" and answer "x is y.".
C6_Original ==
    (pc = "parse_done" /\ response_text = ScenarioResponse /\ num_exchanges = 1)
        => conversations =
             <<[question |-> <<"w","h","a","t"," ","i","s"," ","x","?">>,
                answer |-> <<"x"," ","i","s"," ","y",".">>]>>

\* C6, amended: the scenario response parsed with one exchange gives one
\* conversation, question "what is x?" and answer "X is Y.": the question
\* is lowercased, the answer keeps its case.
C6_ScenarioConversation ==
    (pc = "parse_done" /\ response_text = ScenarioResponse /\ num_exchanges = 1)
        => conversations =
             <<[question |-> <<"w","h","a","t"," ","i","s"," ","x","?">>,
                answer |-> <<"X"," ","i","s"," ","Y",".">>]>>

\* the scenario response has been parsed with one exchange
C6_Witness ==
    /\ pc = "parse_done"
    /\ response_text = ScenarioResponse
    /\ num_exchanges = 1
    /\ Len(conversations) = 1

\* the field names of a conversation of n exchanges
FieldNames(n) ==
    IF n = 1 THEN {"question", "answer"}
    ELSE {"question", "answer", "followup_question", "followup_answer"}

\* t is not empty and neither starts nor ends with whitespace
Trimmed(t) == t # <<>> /\ t[1] \notin Whitespace /\ t[Len(t)] \notin Whitespace

\* C7: every conversation in the list has exactly the fields of its exchange
\* depth (question and answer, and for two exchanges followup_question and
\* followup_answer), each a non-empty string without leading or trailing
\* whitespace; a segment with a field that is empty after normalization
\* adds nothing to the list.
C7_ConversationsFullyPopulated ==
    /\ num_exchanges \in {1, 2} =>
         \A k \in 1..Len(conversations) :
            /\ DOMAIN conversations[k] = FieldNames(num_exchanges)
            /\ \A f \in DOMAIN conversations[k] : Trimmed(conversations[k][f])
    /\ (/\ pc = "parse_done"
        /\ num_exchanges \in {1, 2}
        /\ Len(segments) = 1
        /\ segments[1].shape = RequiredShape(num_exchanges)
        /\ \A f \in RequiredSlots(num_exchanges) : DelimiterFree(segments[1].texts[f])
        /\ \E f \in RequiredSlots(num_exchanges) : CleanedSlot(segments[1], f) = <<>>)
          => conversations = <<>>

\* a two-exchange conversation has been returned from texts wrapped in
\* whitespace
C7_Witness ==
    /\ pc = "parse_done"
    /\ num_exchanges = 2
    /\ segments = <<Segment(ShapeMulti, EnumeratedTexts)>>
    /\ Len(conversations) = 1
    /\ DOMAIN conversations[1] = FieldNames(2)

\* the question normalization: trim, strip a leading enumeration prefix,
\* lowercase
Renormalized(q) == Lower(Strip(StripEnumPrefix(Strip(q))))

\* the question fields of a conversation
QuestionFields(conv) == DOMAIN conv \cap {"question", "followup_question"}

\* C8 as stated: normalizing again the question or follow-up question of a
\* returned conversation leaves it unchanged.
C8_Original ==
    \A k \in 1..Len(conversations) :
       \A f \in QuestionFields(conversations[k]) :
          Renormalized(conversations[k][f]) = conversations[k][f]

\* C8, amended: trimming and lowercasing again the question or follow-up
\* question of a returned conversation leaves it unchanged, and so does the
\* whole normalization unless the field still starts with a digit.
C8_RenormalizationUnlessDigit ==
    \A k \in 1..Len(conversations) :
       \A f \in QuestionFields(conversations[k]) :
          LET q == conversations[k][f]
          IN  /\ Strip(q) = q
              /\ Lower(q) = q
              /\ q[1] \notin Digits => Renormalized(q) = q

\* the question "1. 2. T" has been returned as "2. t"
C8_Witness ==
    /\ pc = "parse_done"
    /\ num_exchanges = 1
    /\ segments = <<Segment(ShapeSingle, DoubleEnumTexts)>>
    /\ Len(conversations) = 1
    /\ conversations[1].question = <<"2", ".", " ", "t">>

\* C9 as stated: a question written "1. text" and a question written
\* "2) text" are both returned as "text".
C9_EnumerationMarkersStripped ==
    (/\ pc = "parse_done"
     /\ num_exchanges = 1
     /\ Len(segments) = 1
     /\ segments[1] \in {Segment(ShapeSingle, EnumeratedTexts),
                         Segment(ShapeSingle, ParenTexts)})
        => /\ Len(conversations) = 1
           /\ conversations[1].question = <<"t","e","x","t">>

\* the answer fields of a conversation
AnswerFields(conv) == DOMAIN conv \cap {"answer", "followup_answer"}

\* the lengths of the maximal runs of newlines of t, left to right
NewlineRuns(t) ==
    LET starts == TrueIndices([j \in 1..Len(t) |->
                     t[j] = "\n" /\ (j = 1 \/ t[j - 1] # "\n")], 1, Len(t))
        ends == TrueIndices([j \in 1..Len(t) |->
                     t[j] = "\n" /\ (j = Len(t) \/ t[j + 1] # "\n")], 1, Len(t))
    IN  [r \in 1..Len(starts) |-> ends[r] - starts[r] + 1]

\* t without its newlines
WithoutNewlines(t) == SelectSeq(t, LAMBDA c : c # "\n")

\* out is t with every run of three or more newlines cut down to two and
\* nothing else changed
RunsCutToTwo(t, out) ==
    /\ WithoutNewlines(out) = WithoutNewlines(t)
    /\ Len(NewlineRuns(out)) = Len(NewlineRuns(t))
    /\ \A r \in 1..Len(NewlineRuns(t)) :
          NewlineRuns(out)[r] = Min(NewlineRuns(t)[r], 2)

\* C10: no answer or follow-up answer in the list holds three newlines in a
\* row; the answer returned for a well-formed segment is its answer text,
\* trimmed, with every run of three or more newlines cut down to two and
\* the single and double newlines kept.
C10_AnswersCollapseNewlines ==
    /\ \A k \in 1..Len(conversations) :
          \A f \in AnswerFields(conversations[k]) :
             ~Contains(conversations[k][f], <<"\n", "\n", "\n">>)
    /\ (/\ pc = "parse_done"
        /\ num_exchanges \in {1, 2}
        /\ Len(segments) = 1
        /\ WellFormed(segments[1], num_exchanges))
          => /\ Len(conversations) = 1
             /\ RunsCutToTwo(TrimmedSlot(segments[1], "a"), conversations[1].answer)
             /\ num_exchanges = 2 =>
                  RunsCutToTwo(TrimmedSlot(segments[1], "fa"),
                               conversations[1].followup_answer)

\* answers with runs of three and four newlines have been returned
C10_Witness ==
    /\ pc = "parse_done"
    /\ num_exchanges = 2
    /\ segments = <<Segment(ShapeMulti, EnumeratedTexts)>>
    /\ Len(conversations) = 1
    /\ conversations[1].answer = <<"a", "\n", "\n", "b">>
    /\ conversations[1].followup_answer =
         <<"c", "\n", "d", "\n", "\n", "e", "\n", "\n", "f">>

\* how many times the token CONVERSATION is written in a response
TokenCount(r) == Cardinality({k \in 1..Len(r) : Occurs(r, CONVERSATION, k)})

\* the loop so far: no statement of the try block raised on the part just
\* consumed, and the parts consumed gave at most one conversation each,
\* every field of which is a string
ParsedWithoutError ==
    /\ part_no \in 0..Len(parts)
    /\ part_no > 0 => ~PartRaises(parts[part_no], num_exchanges)
    /\ Len(conversations) <= part_no
    /\ \A k \in 1..Len(conversations) :
          \A f \in DOMAIN conversations[k] :
            DOMAIN conversations[k][f] = 1..Len(conversations[k][f])

\* C11: parse_qa_response never raises: for every response (the empty
\* string, text without the token CONVERSATION, delimiters in any order or
\* number) and every num_exchanges, 1 or not, no statement of the loop body
\* raises on any part, the function returns once every part is consumed,
\* there is one part for every CONVERSATION token of the response, and the
\* list returned holds at most one conversation for every part, so none
\* when the response holds no token.
C11_NeverRaises ==
    /\ ParsedWithoutError
    /\ pc \in {"parse_qa_response", "parse_loop", "parse_done"}
    /\ pc # "parse_qa_response" => Len(parts) = TokenCount(response_text)
    /\ pc = "parse_done" =>
          /\ part_no = Len(parts)
          /\ Len(conversations) <= TokenCount(response_text)

\* a response whose only segment writes the follow-up pair first, parsed
\* with num_exchanges = 0, returns the empty list
C11_Witness ==
    /\ pc = "parse_done"
    /\ num_exchanges = 0
    /\ segments = <<Segment(<<"F", "FA", "Q", "A">>, PlainTexts)>>
    /\ part_no = 1
    /\ conversations = <<>>

----------------------------------------------------------------------------
(* OutputFormatter.format_for_model and json.dumps                         *)

\* the characters of the field names and role names the formatter writes
Chars(name) ==
    CASE name = "question" ->
          <<"q", "u", "e", "s", "t", "i", "o", "n">>
      [] name = "answer" ->
          <<"a", "n", "s", "w", "e", "r">>
      [] name = "followup_question" ->
          <<"f", "o", "l", "l", "o", "w", "u", "p", "_", "q", "u", "e", "s",
            "t", "i", "o", "n">>
      [] name = "followup_answer" ->
          <<"f", "o", "l", "l", "o", "w", "u", "p", "_", "a", "n", "s", "w",
            "e", "r">>
      [] name = "text" ->
          <<"t", "e", "x", "t">>
      [] name = "messages" ->
          <<"m", "e", "s", "s", "a", "g", "e", "s">>
      [] name = "role" ->
          <<"r", "o", "l", "e">>
      [] name = "content" ->
          <<"c", "o", "n", "t", "e", "n", "t">>
      [] name = "user" ->
          <<"u", "s", "e", "r">>
      [] name = "assistant" ->
          <<"a", "s", "s", "i", "s", "t", "a", "n", "t">>
      [] name = "instruction" ->
          <<"i", "n", "s", "t", "r", "u", "c", "t", "i", "o", "n">>
      [] name = "input" ->
          <<"i", "n", "p", "u", "t">>
      [] name = "output" ->
          <<"o", "u", "t", "p", "u", "t">>
      [] name = "follow_up_instruction" ->
          <<"f", "o", "l", "l", "o", "w", "_", "u", "p", "_", "i", "n", "s",
            "t", "r", "u", "c", "t", "i", "o", "n">>
      [] name = "follow_up_output" ->
          <<"f", "o", "l", "l", "o", "w", "_", "u", "p", "_", "o", "u", "t",
            "p", "u", "t">>

\* the keys of a conversation, in the order the parser inserts them
FieldOrder == <<"question", "answer", "followup_question", "followup_answer">>

\* a Python value handed to json.dumps: a str, a list, or a dict as the
\* sequence of its items in insertion order
PyStr(s) == [kind |-> "str", val |-> s]
PyList(xs) == [kind |-> "list", val |-> xs]
PyDict(items) == [kind |-> "dict", val |-> items]
Item(key, value) == [key |-> Chars(key), value |-> value]

\* the encoder without the escape of the newline
JsonEscapeCharRawNewline(c) ==
    CASE c = "\"" -> <<"\\", "\"">>
      [] c = "\\" -> <<"\\", "\\">>
      [] c = "\r" -> <<"\\", "r">>
      [] c = "\t" -> <<"\\", "t">>
      [] c = "\f" -> <<"\\", "f">>
      [] c = "U+0008" -> <<"\\", "b">>
      [] c = "U+0001" -> <<"\\", "u", "0", "0", "0", "1">>
      [] OTHER -> <<c>>

\* json.encoder with ensure_ascii=False: the quote, the backslash and the
\* control characters are escaped, every other character is written as it
\* is.  "U+0008" and "U+0001" stand for the control characters backspace
\* and SOH, "U+00E9" for a character outside ASCII.
JsonEscapeChar(c) ==
    CASE c = "\"" -> <<"\\", "\"">>
      [] c = "\\" -> <<"\\", "\\">>
      [] c = "\n" -> <<"\\", "n">>
      [] c = "\r" -> <<"\\", "r">>
      [] c = "\t" -> <<"\\", "t">>
      [] c = "\f" -> <<"\\", "f">>
      [] c = "U+0008" -> <<"\\", "b">>
      [] c = "U+0001" -> <<"\\", "u", "0", "0", "0", "1">>
      [] OTHER -> <<c>>

\* a str as a JSON string literal
JsonString(s) ==
    <<"\"">> \o Flatten([k \in 1..Len(s) |-> JsonEscapeChar(s[k])]) \o <<"\"">>

RECURSIVE JsonDumps(_)
\* json.dumps(v, ensure_ascii=False): items separated by ", ", keys from
\* values by ": ", nothing pretty-printed
JsonDumps(v) ==
    CASE v.kind = "str" -> JsonString(v.val)
      [] v.kind = "list" ->
           <<"[">>
             \o JoinRange([k \in 1..Len(v.val) |-> JsonDumps(v.val[k])],
                          1, Len(v.val), <<",", " ">>)
             \o <<"]">>
      [] v.kind = "dict" ->
           <<"{">>
             \o JoinRange([k \in 1..Len(v.val) |->
                             JsonString(v.val[k].key) \o <<":", " ">>
                               \o JsonDumps(v.val[k].value)],
                          1, Len(v.val), <<",", " ">>)
             \o <<"}">>


\* the turn markers of the Gemma and Llama chat templates
GemmaUser ==
    <<"<", "s", "t", "a", "r", "t", "_", "o", "f", "_", "t", "u", "r", "n",
      ">", "u", "s", "e", "r", "\n">>
GemmaModel ==
    <<"<", "s", "t", "a", "r", "t", "_", "o", "f", "_", "t", "u", "r", "n",
      ">", "m", "o", "d", "e", "l", "\n">>
GemmaEnd ==
    <<"<", "e", "n", "d", "_", "o", "f", "_", "t", "u", "r", "n", ">">>
LlamaBegin ==
    <<"<", "|", "b", "e", "g", "i", "n", "_", "o", "f", "_", "t", "e", "x",
      "t", "|", ">">>
LlamaUser ==
    <<"<", "|", "s", "t", "a", "r", "t", "_", "h", "e", "a", "d", "e", "r",
      "_", "i", "d", "|", ">", "u", "s", "e", "r", "<", "|", "e", "n", "d",
      "_", "h", "e", "a", "d", "e", "r", "_", "i", "d", "|", ">", "\n",
      "\n">>
LlamaAssistant ==
    <<"<", "|", "s", "t", "a", "r", "t", "_", "h", "e", "a", "d", "e", "r",
      "_", "i", "d", "|", ">", "a", "s", "s", "i", "s", "t", "a", "n", "t",
      "<", "|", "e", "n", "d", "_", "h", "e", "a", "d", "e", "r", "_", "i",
      "d", "|", ">", "\n", "\n">>
LlamaEnd ==
    <<"<", "|", "e", "o", "t", "_", "i", "d", "|", ">">>

\* _format_gemma
FormatGemma(conv, n) ==
    IF n = 1 THEN
        PyDict(<<Item("text", PyStr(
            GemmaUser \o conv.question \o GemmaEnd \o <<"\n">>
              \o GemmaModel \o conv.answer \o GemmaEnd))>>)
    ELSE
        PyDict(<<Item("text", PyStr(
            GemmaUser \o conv.question \o GemmaEnd \o <<"\n">>
              \o GemmaModel \o conv.answer \o GemmaEnd \o <<"\n">>
              \o GemmaUser \o conv.followup_question \o GemmaEnd \o <<"\n">>
              \o GemmaModel \o conv.followup_answer \o GemmaEnd))>>)

\* _format_llama
FormatLlama(conv, n) ==
    IF n = 1 THEN
        PyDict(<<Item("text", PyStr(
            LlamaBegin \o LlamaUser \o conv.question \o LlamaEnd
              \o LlamaAssistant \o conv.answer \o LlamaEnd))>>)
    ELSE
        PyDict(<<Item("text", PyStr(
            LlamaBegin \o LlamaUser \o conv.question \o LlamaEnd
              \o LlamaAssistant \o conv.answer \o LlamaEnd
              \o LlamaUser \o conv.followup_question \o LlamaEnd
              \o LlamaAssistant \o conv.followup_answer \o LlamaEnd))>>)

\* one {"role": ..., "content": ...} message
Message(role, content) ==
    PyDict(<<Item("role", PyStr(Chars(role))), Item("content", PyStr(content))>>)

\* _format_openai with the assistant message before the user message
FormatOpenAIAssistantFirst(conv, n) ==
    IF n = 1 THEN
        PyDict(<<Item("messages", PyList(
            <<Message("assistant", conv.answer),
              Message("user", conv.question)>>))>>)
    ELSE
        PyDict(<<Item("messages", PyList(
            <<Message("assistant", conv.answer),
              Message("user", conv.question),
              Message("assistant", conv.followup_answer),
              Message("user", conv.followup_question)>>))>>)

\* _format_openai
FormatOpenAI(conv, n) ==
    IF n = 1 THEN
        PyDict(<<Item("messages", PyList(
            <<Message("user", conv.question),
              Message("assistant", conv.answer)>>))>>)
    ELSE
        PyDict(<<Item("messages", PyList(
            <<Message("user", conv.question),
              Message("assistant", conv.answer),
              Message("user", conv.followup_question),
              Message("assistant", conv.followup_answer)>>))>>)

\* _format_alpaca
FormatAlpaca(conv, n) ==
    IF n = 1 THEN
        PyDict(<<Item("instruction", PyStr(conv.question)),
                 Item("input", PyStr(<<>>)),
                 Item("output", PyStr(conv.answer))>>)
    ELSE
        PyDict(<<Item("instruction", PyStr(conv.question)),
                 Item("input", PyStr(<<>>)),
                 Item("output", PyStr(conv.answer)),
                 Item("follow_up_instruction", PyStr(conv.followup_question)),
                 Item("follow_up_output", PyStr(conv.followup_answer))>>)

\* conversation = conv: the conversation's own dict, its keys in the order
\* they were inserted
FormatGeneric(conv) ==
    LET keys == SelectSeq(FieldOrder, LAMBDA f : f \in DOMAIN conv)
    IN  PyDict([k \in 1..Len(keys) |-> Item(keys[k], PyStr(conv[keys[k]]))])

\* get_available_formats
AvailableFormats == {"Gemma", "Llama", "OpenAI", "Alpaca"}

\* the keys the branch taken for model_format and n subscripts conv with
KeysRead(fmt, n) ==
    IF fmt \notin AvailableFormats THEN {}
    ELSE IF n = 1 THEN {"question", "answer"}
    ELSE {"question", "answer", "followup_question", "followup_answer"}

\* conv[key] raises KeyError for a key the conversation does not hold
FormatRaises(conv, fmt, n) == ~(KeysRead(fmt, n) \subseteq DOMAIN conv)

\* the chain with a one-exchange Alpaca record for every name it does not
\* know
FormatOneDefaultAlpaca(conv, fmt, n) ==
    CASE fmt = "Gemma" -> FormatGemma(conv, n)
      [] fmt = "Llama" -> FormatLlama(conv, n)
      [] fmt = "OpenAI" -> FormatOpenAI(conv, n)
      [] OTHER -> FormatAlpaca(conv, 1)

\* the if / elif chain of the loop body: the value handed to json.dumps
FormatOne(conv, fmt, n) ==
    CASE fmt = "Gemma" -> FormatGemma(conv, n)
      [] fmt = "Llama" -> FormatLlama(conv, n)
      [] fmt = "OpenAI" -> FormatOpenAI(conv, n)
      [] fmt = "Alpaca" -> FormatAlpaca(conv, n)
      [] OTHER -> FormatGeneric(conv)

\* json.dumps(conversation, ensure_ascii=False) of the loop body
SerializeOne(conv, fmt, n) == JsonDumps(FormatOne(conv, fmt, n))

\* the conversations the formatter is run on, as the parser returns them:
\* every field trimmed and not empty, the questions in lower case

\* "what is x?", "X is Y.", "why so?", "By Z."
PlainConversation ==
    [question |->
        <<"w", "h", "a", "t", " ", "i", "s", " ", "x", "?">>,
     answer |->
        <<"X", " ", "i", "s", " ", "Y", ".">>,
     followup_question |->
        <<"w", "h", "y", " ", "s", "o", "?">>,
     followup_answer |->
        <<"B", "y", " ", "Z", ".">>]

\* fields with a quote, a backslash, newlines, a tab, a control character,
\* a character outside ASCII, a turn marker and JSON punctuation
SpecialConversation ==
    [question |->
        <<"s", "a", "y", " ", "\"", "a", "\\", "b", "\"">>,
     answer |->
        <<"l", "1", "\n", "\n", "l", "2", "\t", "U+00E9", "U+0001", "!">>,
     followup_question |->
        <<"i", "s", " ", "<", "e", "n", "d", "_", "o", "f", "_", "t", "u",
          "r", "n", ">", " ", "o", "k", "?">>,
     followup_answer |->
        <<"x", "\"", ",", " ", "\"", "a", "n", "s", "w", "e", "r", "\"",
          ":", " ", "\"", "y", "\r", "z">>]

\* "who?", "Me.", "when?", "Now."
OtherConversation ==
    [question |->
        <<"w", "h", "o", "?">>,
     answer |->
        <<"M", "e", ".">>,
     followup_question |->
        <<"w", "h", "e", "n", "?">>,
     followup_answer |->
        <<"N", "o", "w", ".">>]


\* the first exchange of a conversation: what the parser returns with
\* num_exchanges = 1
FirstExchange(conv) == [question |-> conv.question, answer |-> conv.answer]

ConversationPool == {PlainConversation, SpecialConversation, OtherConversation}

\* the conversation lists handed to format_for_model: up to
\* MaxConversations conversations, all with two fields or all with four
ConversationLists ==
    SeqsUpTo(ConversationPool, MaxConversations)
        \cup SeqsUpTo({FirstExchange(c) : c \in ConversationPool}, MaxConversations)

\* the names format_for_model is called with: the four it knows, the names
\* app.py offers that it does not know, a misspelt name and the empty name
FormatNames ==
    AvailableFormats \cup {"ChatML", "ShareGPT", "Generic", "gemma", ""}

FormatInit ==
    /\ pc = "format_for_model"
    /\ conversations \in ConversationLists
    /\ model_format \in FormatNames
    /\ num_exchanges \in 0..MaxExchanges
    /\ conv_no = 0
    /\ formatted_examples = <<>>
    /\ preamble = <<>> /\ segments = <<>> /\ response_text = <<>>
    /\ parts = <<>> /\ part_no = 0
    /\ ChunkerIdle /\ RunIdle /\ IntjIdle

\* formatted_examples = []
FormatStart ==
    /\ pc = "format_for_model"
    /\ formatted_examples' = <<>>
    /\ conv_no' = 0
    /\ pc' = "format_loop"
    /\ UNCHANGED <<model_format, chunkerVars, parserVars, runVars, intjVars>>

\* one iteration of: for conv in conversations
FormatLoopBody ==
    /\ pc = "format_loop"
    /\ conv_no < Len(conversations)
    /\ ~FormatRaises(conversations[conv_no + 1], model_format, num_exchanges)
    /\ formatted_examples' =
         Append(formatted_examples,
                SerializeOne(conversations[conv_no + 1], model_format, num_exchanges))
    /\ conv_no' = conv_no + 1
    /\ UNCHANGED <<pc, model_format, chunkerVars, parserVars, runVars, intjVars>>

\* an iteration whose branch subscripts conv with a key it does not hold:
\* the KeyError leaves format_for_model, which has no try
FormatLoopRaise ==
    /\ pc = "format_loop"
    /\ conv_no < Len(conversations)
    /\ FormatRaises(conversations[conv_no + 1], model_format, num_exchanges)
    /\ pc' = "format_raised"
    /\ UNCHANGED <<formatterVars, chunkerVars, parserVars, runVars, intjVars>>

\* the conversations are exhausted: return formatted_examples
FormatReturn ==
    /\ pc = "format_loop"
    /\ conv_no >= Len(conversations)
    /\ pc' = "format_done"
    /\ UNCHANGED <<formatterVars, chunkerVars, parserVars, runVars, intjVars>>

FormatNext == FormatStart \/ FormatLoopBody \/ FormatLoopRaise \/ FormatReturn

SpecFormat == FormatInit /\ [][FormatNext]_vars

----------------------------------------------------------------------------
(* Claims about format_for_model.  A record is decoded as json.loads reads *)
(* it: its string literals are found by their unescaped quotes and their   *)
(* escapes are undone; what is left of the record is its punctuation.      *)

RECURSIVE BackslashesBefore(_, _)
\* how many backslashes stand in a row immediately before position j
BackslashesBefore(s, j) ==
    IF j > 1 /\ s[j - 1] = "\\" THEN 1 + BackslashesBefore(s, j - 1) ELSE 0

\* the positions of the quotes that open or close a string literal
LiteralQuotes(s) ==
    TrueIndices([j \in 1..Len(s) |->
                   s[j] = "\"" /\ BackslashesBefore(s, j) % 2 = 0], 1, Len(s))

\* the character an escape sequence starting at position p stands for
UnescapedAt(raw, p) ==
    LET c == raw[p + 1]
    IN  CASE c = "n" -> "\n"
          [] c = "r" -> "\r"
          [] c = "t" -> "\t"
          [] c = "f" -> "\f"
          [] c = "b" -> "U+0008"
          [] c = "u" ->
               (LET hex == SubSeq(raw, p + 2, p + 5)
                IN  CASE hex = <<"0", "0", "0", "1">> -> "U+0001"
                      [] hex = <<"0", "0", "0", "8">> -> "U+0008"
                      [] hex = <<"0", "0", "e", "9">> -> "U+00E9"
                      [] OTHER -> "U+????")
          [] OTHER -> c

\* the str a string literal's inside stands for
JsonUnescape(raw) ==
    LET starts == [p \in 1..Len(raw) |->
                     raw[p] = "\\" /\ BackslashesBefore(raw, p) % 2 = 0]
        inside == [p \in 1..Len(raw) |->
                     \/ p > 1 /\ starts[p - 1]
                     \/ \E d \in 2..5 :
                          p - d >= 1 /\ starts[p - d] /\ raw[p - d + 1] = "u"]
    IN  Flatten([p \in 1..Len(raw) |->
                   IF starts[p] THEN <<UnescapedAt(raw, p)>>
                   ELSE IF inside[p] THEN <<>>
                   ELSE <<raw[p]>>])

\* the strings of a record, decoded, in the order they are written
JsonStrings(s) ==
    LET q == LiteralQuotes(s)
    IN  [m \in 1..(Len(q) \div 2) |->
           JsonUnescape(SubSeq(s, q[2 * m - 1] + 1, q[2 * m] - 1))]

\* the record with every string literal replaced by the letter S
JsonSkeleton(s) ==
    LET q == LiteralQuotes(s)
        opens == {q[2 * m - 1] : m \in 1..(Len(q) \div 2)}
        within(j) == \E m \in 1..(Len(q) \div 2) : q[2 * m - 1] < j /\ j <= q[2 * m]
    IN  Flatten([j \in 1..Len(s) |->
                   IF j \in opens THEN <<"S">>
                   ELSE IF within(j) THEN <<>>
                   ELSE <<s[j]>>])

\* a conversation as parse_qa_response returns it for num_exchanges = n
ValidConversation(conv, n) ==
    /\ DOMAIN conv = FieldNames(n)
    /\ \A f \in DOMAIN conv : conv[f] # <<>>

ValidList(convs, n) == \A k \in 1..Len(convs) : ValidConversation(convs[k], n)

\* C12: format_for_model is total and keeps the order: for every list of
\* valid conversations and every format name, no iteration raises, there is
\* one record per conversation consumed and so one per conversation on
\* return, no record holds a raw newline or carriage return, and the k-th
\* record holds every field text of the k-th conversation in one of its
\* decoded strings.
C12_OneLinePerConversation ==
    ValidList(conversations, num_exchanges) /\ pc # "format_for_model" =>
        /\ pc # "format_raised"
        /\ Len(formatted_examples) = conv_no
        /\ pc = "format_done" => Len(formatted_examples) = Len(conversations)
        /\ \A k \in 1..Len(formatted_examples) :
             /\ \A j \in 1..Len(formatted_examples[k]) :
                  formatted_examples[k][j] \notin {"\n", "\r"}
             /\ LET strings == JsonStrings(formatted_examples[k])
                IN  \A f \in DOMAIN conversations[k] :
                      \E m \in 1..Len(strings) :
                        Contains(strings[m], conversations[k][f])

\* two different conversations, the first with newlines in its answer,
\* formatted for Gemma with two exchanges: two records
C12_Witness ==
    /\ pc = "format_done"
    /\ model_format = "Gemma"
    /\ num_exchanges = 2
    /\ conversations = <<SpecialConversation, PlainConversation>>
    /\ Len(formatted_examples) = 2
    /\ formatted_examples[1] # formatted_examples[2]

\* the strings json.loads reads from a role-message record of the messages
\* given as <<role, content>> pairs
MessageStrings(messages) ==
    <<Chars("messages")>>
        \o Flatten([k \in 1..Len(messages) |->
                      <<Chars("role"), Chars(messages[k][1]),
                        Chars("content"), messages[k][2]>>])

\* the exchanges of a conversation as user and assistant messages
ExpectedMessages(conv) ==
    <<<<"user", conv.question>>, <<"assistant", conv.answer>>>>
        \o (IF "followup_question" \in DOMAIN conv
            THEN <<<<"user", conv.followup_question>>,
                   <<"assistant", conv.followup_answer>>>>
            ELSE <<>>)

\* the punctuation of a role-message record of k messages, and of a flat
\* record of k items
MessagesSkeleton(k) ==
    <<"{", "S", ":", " ", "[">>
        \o JoinRange([j \in 1..k |->
                        <<"{", "S", ":", " ", "S", ",", " ", "S", ":", " ", "S", "}">>],
                     1, k, <<",", " ">>)
        \o <<"]", "}">>
FlatSkeleton(k) ==
    <<"{">> \o JoinRange([j \in 1..k |-> <<"S", ":", " ", "S">>], 1, k, <<",", " ">>)
        \o <<"}">>

\* the strings json.loads reads from the record of a conversation's own
\* mapping: key, value, key, value, in the order of insertion
OwnMappingStrings(conv) ==
    LET keys == SelectSeq(FieldOrder, LAMBDA f : f \in DOMAIN conv)
    IN  Flatten([k \in 1..Len(keys) |-> <<Chars(keys[k]), conv[keys[k]]>>])

\* C13: for the role-message format ("OpenAI") and the generic format,
\* decoding the record of a valid conversation gives back every question
\* and answer text exactly; the role-message record is a list of messages
\* user, assistant, user, assistant, one pair per exchange of the
\* conversation in exchange order, and the generic record is the
\* conversation's fields.
C13_RoundTrip ==
    ValidList(conversations, num_exchanges)
      /\ model_format \in {"OpenAI", "Generic"} =>
        \A k \in 1..Len(formatted_examples) :
          LET conv == conversations[k]
              record == formatted_examples[k]
          IN  IF model_format = "OpenAI"
              THEN /\ JsonStrings(record) = MessageStrings(ExpectedMessages(conv))
                   /\ JsonSkeleton(record) =
                        MessagesSkeleton(Cardinality(DOMAIN conv))
              ELSE /\ JsonStrings(record) = OwnMappingStrings(conv)
                   /\ JsonSkeleton(record) = FlatSkeleton(Cardinality(DOMAIN conv))

\* the conversation with quotes, backslashes, newlines and JSON punctuation
\* in its fields, formatted as four role messages
C13_Witness ==
    /\ pc = "format_done"
    /\ model_format = "OpenAI"
    /\ num_exchanges = 2
    /\ conversations = <<SpecialConversation>>
    /\ Len(JsonStrings(formatted_examples[1])) = 17
    /\ JsonStrings(formatted_examples[1])[9] = SpecialConversation.answer

\* the field mapping json.loads reads from a flat record
DecodedMapping(record) ==
    LET strings == JsonStrings(record)
        names == {f \in {FieldOrder[j] : j \in 1..Len(FieldOrder)} :
                    \E m \in 1..(Len(strings) \div 2) : strings[2 * m - 1] = Chars(f)}
    IN  [f \in names |->
           strings[2 * (CHOOSE m \in 1..(Len(strings) \div 2) :
                          strings[2 * m - 1] = Chars(f))]]

\* C14: for every format name that is not one of the recognised names
\* (names of other tools, a misspelt name, the empty name), format_for_model
\* does not raise, whatever fields the conversations hold, and every record
\* is the conversation's own field mapping: decoding it gives the same keys
\* with the same texts and nothing else.
C14_UnknownFormatIsGeneric ==
    model_format \notin AvailableFormats =>
        /\ pc # "format_raised"
        /\ Len(formatted_examples) = conv_no
        /\ \A k \in 1..Len(formatted_examples) :
             /\ DecodedMapping(formatted_examples[k]) = conversations[k]
             /\ Len(JsonStrings(formatted_examples[k]))
                  = 2 * Cardinality(DOMAIN conversations[k])
             /\ JsonSkeleton(formatted_examples[k])
                  = FlatSkeleton(Cardinality(DOMAIN conversations[k]))

\* two-field conversations formatted for "ChatML" with num_exchanges = 2,
\* where a recognised name would subscript the missing follow-up fields
C14_Witness ==
    /\ pc = "format_done"
    /\ model_format = "ChatML"
    /\ num_exchanges = 2
    /\ conversations = <<FirstExchange(SpecialConversation),
                         FirstExchange(PlainConversation)>>
    /\ Len(formatted_examples) = 2

----------------------------------------------------------------------------
(* DatasetGenerator.generate_dataset and generate_qa_pairs                 *)
(* (dataset_generator.py)                                                  *)

\* TextProcessor.split_by_word_count as one call: the chunks of a text
SplitByWordCount(t, n) ==
    LET ws == SplitWhitespace(t)
        all == [k \in 1..((Len(ws) + n - 1) \div n) |-> ChunkOf(ws, (k - 1) * n, n)]
    IN  SelectSeq(all, LAMBDA c : c # <<>>)

\* TextProcessor.parse_qa_response as one call: the conversations of a
\* response
ParseResponse(r, n) ==
    LET ps == ConversationParts(r)
    IN  Flatten([k \in 1..Len(ps) |-> ParsePart(ps[k], n)])

\* OutputFormatter.format_for_model as one call, on conversations that hold
\* the keys the format reads
FormatForModel(convs, fmt, n) ==
    [k \in 1..Len(convs) |-> SerializeOne(convs[k], fmt, n)]

\* the name of the one keyword argument of prompt_template.format(chunk=chunk)
ChunkField == <<"c", "h", "u", "n", "k">>

RECURSIVE TemplateFormatRaises(_, _)
\* str.format reading the custom prompt inside the template from position
\* k: "{{" and "}}" are literal braces, "{chunk}" is replaced, a field of
\* another name raises KeyError or IndexError, and a brace that opens no
\* field or closes none raises ValueError.  (The rest of the template holds
\* no brace but those of its own {chunk}, so a field left open by the
\* custom prompt is never closed.)
TemplateFormatRaises(s, k) ==
    IF k > Len(s) THEN FALSE
    ELSE IF s[k] = "{" THEN
        IF k < Len(s) /\ s[k + 1] = "{" THEN TemplateFormatRaises(s, k + 2)
        ELSE LET close == LeastTrue([j \in 1..Len(s) |-> s[j] = "}"], k + 1, Len(s))
             IN  IF close = 0 THEN TRUE
                 ELSE IF SubSeq(s, k + 1, close - 1) # ChunkField THEN TRUE
                 ELSE TemplateFormatRaises(s, close + 1)
    ELSE IF s[k] = "}" THEN
        IF k < Len(s) /\ s[k + 1] = "}" THEN TemplateFormatRaises(s, k + 2)
        ELSE TRUE
    ELSE TemplateFormatRaises(s, k + 1)

\* prompt = create_prompt_template(custom_prompt, ...).format(chunk=chunk)
\* raises: the custom prompt is pasted into the template before format runs
PromptRaises(prompt) == TemplateFormatRaises(prompt, 1)

\* max_retries = 3
MaxRetries == 3
\* time.sleep(3) between attempts, time.sleep(1) between chunks
RetryDelay == 3
ChunkDelay == 1

\* the entries of the log: a provider call with its outcome, a sleep, and
\* the examples of a chunk joining the run's list
CallEvent(c, a, outcome) ==
    [op |-> "call", chunk |-> c, attempt |-> a, outcome |-> outcome, n |-> 0]
SleepEvent(c, a, secs) ==
    [op |-> "sleep", chunk |-> c, attempt |-> a, outcome |-> "", n |-> secs]
ExtendEvent(c, count) ==
    [op |-> "extend", chunk |-> c, attempt |-> 0, outcome |-> "", n |-> count]

\* the custom prompts of the model: plain text, a placeholder in braces,
\* and doubled braces.  No prompt holds "!", ":", "." or "[" inside braces,
\* the conversion, format-spec and attribute syntax of str.format.
PlainPrompt ==
    <<"B", "e", " ", "b", "r", "i", "e", "f", ".">>
BracePrompt ==
    <<"U", "s", "e", " ", "{", "n", "a", "m", "e", "}", ".">>
DoubledBracePrompt ==
    <<"W", "r", "i", "t", "e", " ", "{", "{", "x", "}", "}", " ", "a", "s",
      " ", "i", "s", ".">>
CustomPrompts == {PlainPrompt, BracePrompt, DoubledBracePrompt}

\* the non-empty responses of the provider: one with two conversations of
\* two exchanges each, one with a question and no answer,
GoodResponse ==
    RenderResponse(<<"S", "u", "r", "e", ":", "\n">>,
                   <<Segment(ShapeMulti, PlainTexts), Segment(ShapeMulti, EnumeratedTexts)>>)
MissResponse == RenderResponse(<<>>, <<Segment(<<"Q">>, PlainTexts)>>)
\* and one with a single conversation
SingleResponse == RenderResponse(<<>>, <<Segment(ShapeMulti, ParenTexts)>>)
ProviderResponses == {GoodResponse, MissResponse, SingleResponse}

\* the documents of the model: the word "w" from no time to MaxChunks times
RunTexts ==
    {[k \in 1..(2 * c) |-> IF k % 2 = 1 THEN "w" ELSE " "] : c \in 0..MaxChunks}

\* the formats of the runs
RunFormats == {"Gemma", "Generic"}

RunInit ==
    /\ pc = "generate_dataset"
    /\ text \in RunTexts
    /\ words_per_chunk = 1
    /\ num_exchanges \in {1, 2}
    /\ model_format \in RunFormats
    /\ custom_prompt \in CustomPrompts
    /\ words = <<>> /\ i = 0 /\ chunks = <<>>
    /\ preamble = <<>> /\ segments = <<>> /\ response_text = <<>>
    /\ parts = <<>> /\ part_no = 0 /\ conversations = <<>>
    /\ conv_no = 0 /\ formatted_examples = <<>>
    /\ chunk_no = 0 /\ attempt = 0 /\ generated_examples = <<>> /\ log = <<>>
    /\ IntjIdle

\* chunks = self.split_text_into_chunks(...); generated_examples = []
RunSplit ==
    /\ pc = "generate_dataset"
    /\ chunks' = SplitByWordCount(text, words_per_chunk)
    /\ generated_examples' = <<>>
    /\ chunk_no' = 0
    /\ pc' = "run_loop"
    /\ UNCHANGED <<text, words_per_chunk, words, i, parserVars, formatterVars,
                   custom_prompt, attempt, log, intjVars>>

\* the next chunk enters generate_qa_pairs and its prompt is built
RunBuildPrompt ==
    /\ pc = "run_loop"
    /\ chunk_no < Len(chunks)
    /\ ~PromptRaises(custom_prompt)
    /\ attempt' = 0
    /\ pc' = "run_attempt"
    /\ UNCHANGED <<chunkerVars, parserVars, formatterVars, custom_prompt,
                   chunk_no, generated_examples, log, intjVars>>

\* building the prompt raises, outside the try of generate_qa_pairs: the
\* exception leaves generate_qa_pairs and generate_dataset
RunPromptRaises ==
    /\ pc = "run_loop"
    /\ chunk_no < Len(chunks)
    /\ PromptRaises(custom_prompt)
    /\ pc' = "run_raised"
    /\ UNCHANGED <<chunkerVars, parserVars, formatterVars, runVars, intjVars>>

\* a response that parses to no conversation treated like an empty one: the
\* loop goes on to the next attempt
RunResponseTextRetriesMiss ==
    /\ pc = "run_attempt"
    /\ attempt < MaxRetries
    /\ \E r \in ProviderResponses :
         /\ response_text' = r
         /\ conversations' = ParseResponse(r, num_exchanges)
    /\ log' = Append(log, CallEvent(chunk_no + 1, attempt, "text"))
    /\ IF conversations' = <<>>
       THEN pc' = pc /\ attempt' = attempt + 1
       ELSE pc' = "run_chunk_result" /\ attempt' = attempt
    /\ UNCHANGED <<chunkerVars, preamble, segments, num_exchanges, parts, part_no,
                   formatterVars, custom_prompt, chunk_no,
                   generated_examples, intjVars>>

\* an attempt whose provider call returns text: it is parsed and returned
RunResponseText ==
    /\ pc = "run_attempt"
    /\ attempt < MaxRetries
    /\ \E r \in ProviderResponses :
         /\ response_text' = r
         /\ conversations' = ParseResponse(r, num_exchanges)
    /\ log' = Append(log, CallEvent(chunk_no + 1, attempt, "text"))
    /\ pc' = "run_chunk_result"
    /\ UNCHANGED <<chunkerVars, preamble, segments, num_exchanges, parts, part_no,
                   formatterVars, custom_prompt, chunk_no, attempt,
                   generated_examples, intjVars>>

\* an attempt whose provider call returns the empty string: a warning, and
\* the loop goes on to the next attempt at once
RunResponseEmpty ==
    /\ pc = "run_attempt"
    /\ attempt < MaxRetries
    /\ response_text' = <<>>
    /\ log' = Append(log, CallEvent(chunk_no + 1, attempt, "empty"))
    /\ attempt' = attempt + 1
    /\ UNCHANGED <<pc, chunkerVars, preamble, segments, num_exchanges, parts,
                   part_no, conversations, formatterVars, custom_prompt,
                   chunk_no, generated_examples, intjVars>>

\* the except branch sleeping after every attempt, the last one too
RunProviderErrorAlwaysSleeps ==
    /\ pc = "run_attempt"
    /\ attempt < MaxRetries
    /\ log' = log \o <<CallEvent(chunk_no + 1, attempt, "error"),
                       SleepEvent(chunk_no + 1, attempt, RetryDelay)>>
    /\ attempt' = attempt + 1
    /\ UNCHANGED <<pc, chunkerVars, parserVars, formatterVars, custom_prompt,
                   chunk_no, generated_examples, intjVars>>

\* an attempt whose provider call raises: the except branch reports it and
\* sleeps unless this was the last attempt
RunProviderError ==
    /\ pc = "run_attempt"
    /\ attempt < MaxRetries
    /\ log' = log \o <<CallEvent(chunk_no + 1, attempt, "error")>>
                  \o (IF attempt < MaxRetries - 1
                      THEN <<SleepEvent(chunk_no + 1, attempt, RetryDelay)>>
                      ELSE <<>>)
    /\ attempt' = attempt + 1
    /\ UNCHANGED <<pc, chunkerVars, parserVars, formatterVars, custom_prompt,
                   chunk_no, generated_examples, intjVars>>

\* range(max_retries) is exhausted: return []
RunRetriesExhausted ==
    /\ pc = "run_attempt"
    /\ attempt >= MaxRetries
    /\ conversations' = <<>>
    /\ pc' = "run_chunk_result"
    /\ UNCHANGED <<chunkerVars, preamble, segments, response_text, num_exchanges,
                   parts, part_no, formatterVars, runVars, intjVars>>

\* the rest of the loop body with the chunk's examples taking the place of
\* the list
RunChunkResultReplaces ==
    /\ pc = "run_chunk_result"
    /\ LET formatted == IF conversations # <<>>
                        THEN FormatForModel(conversations, model_format, num_exchanges)
                        ELSE <<>>
       IN  /\ formatted_examples' = formatted
           /\ generated_examples' = formatted
           /\ log' = log \o (IF conversations # <<>>
                             THEN <<ExtendEvent(chunk_no + 1, Len(formatted))>>
                             ELSE <<>>)
                         \o <<SleepEvent(chunk_no + 1, 0, ChunkDelay)>>
    /\ chunk_no' = chunk_no + 1
    /\ pc' = "run_loop"
    /\ UNCHANGED <<chunkerVars, parserVars, model_format, conv_no, custom_prompt,
                   attempt, intjVars>>

\* the rest of the loop body of generate_dataset: if conversations, format
\* them and extend generated_examples; time.sleep(1)
RunChunkResult ==
    /\ pc = "run_chunk_result"
    /\ LET formatted == IF conversations # <<>>
                        THEN FormatForModel(conversations, model_format, num_exchanges)
                        ELSE <<>>
       IN  /\ formatted_examples' = formatted
           /\ generated_examples' = generated_examples \o formatted
           /\ log' = log \o (IF conversations # <<>>
                             THEN <<ExtendEvent(chunk_no + 1, Len(formatted))>>
                             ELSE <<>>)
                         \o <<SleepEvent(chunk_no + 1, 0, ChunkDelay)>>
    /\ chunk_no' = chunk_no + 1
    /\ pc' = "run_loop"
    /\ UNCHANGED <<chunkerVars, parserVars, model_format, conv_no, custom_prompt,
                   attempt, intjVars>>

\* the chunks are exhausted: return generated_examples
RunReturn ==
    /\ pc = "run_loop"
    /\ chunk_no >= Len(chunks)
    /\ pc' = "run_done"
    /\ UNCHANGED <<chunkerVars, parserVars, formatterVars, runVars, intjVars>>

RunNext ==
    \/ RunSplit \/ RunBuildPrompt \/ RunPromptRaises
    \/ RunResponseText \/ RunResponseEmpty \/ RunProviderError
    \/ RunRetriesExhausted \/ RunChunkResult \/ RunReturn

SpecRun == RunInit /\ [][RunNext]_vars

----------------------------------------------------------------------------
(* Claims about the run.                                                   *)

\* the log entries of chunk c, and its provider calls
EventsOf(c) == SelectSeq(log, LAMBDA ev : ev.chunk = c)
CallsOf(c) == SelectSeq(log, LAMBDA ev : ev.chunk = c /\ ev.op = "call")

\* every provider call made for chunk c so far raised, and there was one
AllCallsRaised(c) ==
    /\ CallsOf(c) # <<>>
    /\ \A k \in 1..Len(CallsOf(c)) : CallsOf(c)[k].outcome = "error"

\* C15: when the provider call raises on every attempt for a chunk,
\* generate_qa_pairs makes exactly 3 attempts, sleeps 3 after the first and
\* after the second and not after the third, and returns no conversation:
\* nothing joins the example list for the chunk, and the run goes on to the
\* sleep between chunks instead of ending with the exception.
C15_ThreeAttemptsThenEmpty ==
    /\ \A c \in 1..chunk_no :
         AllCallsRaised(c) =>
           EventsOf(c) = <<CallEvent(c, 0, "error"), SleepEvent(c, 0, 3),
                           CallEvent(c, 1, "error"), SleepEvent(c, 1, 3),
                           CallEvent(c, 2, "error"), SleepEvent(c, 0, ChunkDelay)>>
    /\ pc = "run_chunk_result" /\ AllCallsRaised(chunk_no + 1) =>
         /\ conversations = <<>>
         /\ Len(CallsOf(chunk_no + 1)) = 3

\* a run of two chunks: every call for the first raises, the second gets
\* text at once, and the run returns the second chunk's examples
C15_Witness ==
    /\ pc = "run_done"
    /\ chunk_no = 2
    /\ AllCallsRaised(1)
    /\ Len(CallsOf(1)) = 3
    /\ CallsOf(2) = <<CallEvent(2, 0, "text")>>
    /\ generated_examples # <<>>

\* C16: an empty provider response is retried as a raised error is: it
\* uses up one of the 3 attempts, and when another attempt follows, the
\* sleep of 3 stands between them.
C16_EmptyRetriedLikeError ==
    \A j \in 1..Len(log) :
      log[j].op = "call" /\ log[j].outcome \in {"empty", "error"} =>
        /\ log[j].attempt \in 0..(MaxRetries - 1)
        /\ Len(CallsOf(log[j].chunk)) <= MaxRetries
        /\ log[j].attempt < MaxRetries - 1 /\ j < Len(log) =>
             log[j + 1] = SleepEvent(log[j].chunk, log[j].attempt, 3)

\* the chunk an entry of the log belongs to never goes down, and goes up
\* only after the sleep that ends a chunk
ChunksInOrder ==
    \A j \in 1..(Len(log) - 1) :
      \/ log[j + 1].chunk = log[j].chunk
           /\ ~(log[j].op = "sleep" /\ log[j].n = ChunkDelay)
      \/ log[j + 1].chunk = log[j].chunk + 1
           /\ log[j].op = "sleep" /\ log[j].n = ChunkDelay

\* C17: generate_dataset takes the chunks one at a time in index order,
\* each once, whatever the outcome of a chunk, and nothing aborts the run:
\* not a chunk's outcome, and not a configuration value such as the custom
\* prompt.
C17_EveryChunkOnceNoAbort ==
    /\ pc # "run_raised"
    /\ ChunksInOrder
    /\ log # <<>> => log[1].chunk = 1
    /\ \A j \in 1..Len(log) : log[j].chunk \in 1..Len(chunks)
    /\ pc = "run_done" =>
         /\ chunk_no = Len(chunks)
         /\ \A c \in 1..Len(chunks) :
              Len(SelectSeq(EventsOf(c),
                            LAMBDA ev : ev.op = "sleep" /\ ev.n = ChunkDelay)) = 1

\* C18: for every chunk list and every pattern of provider outcomes the run
\* ends by returning its example list, having made for every chunk at
\* least 1 and at most 3 provider calls, one for each attempt 0, 1, ... in
\* turn; the log never grows past what 3 attempts for every chunk allow.
C18_RunReturnsWithinCallBudget ==
    /\ pc \in {"generate_dataset", "run_loop", "run_attempt",
               "run_chunk_result", "run_done"}
    /\ Len(log) <= Len(chunks) * (2 * MaxRetries + 1)
    /\ pc = "run_done" =>
         /\ chunk_no = Len(chunks)
         /\ \A c \in 1..Len(chunks) :
              /\ Len(CallsOf(c)) \in 1..MaxRetries
              /\ \A k \in 1..Len(CallsOf(c)) : CallsOf(c)[k].attempt = k - 1

\* C19: the example list only grows: every step leaves the examples it
\* held in place and in order, and adds examples only at the end and only
\* as the formatted conversations of the chunk just finished, in the order
\* they were parsed.
C19_ExamplesAppendOnly ==
    [][/\ Len(generated_examples') >= Len(generated_examples)
       /\ SubSeq(generated_examples', 1, Len(generated_examples)) = generated_examples
       /\ generated_examples' # generated_examples =>
            /\ pc = "run_chunk_result"
            /\ SubSeq(generated_examples', Len(generated_examples) + 1,
                      Len(generated_examples'))
                 = FormatForModel(conversations, model_format, num_exchanges)]_vars

\* a run of two chunks, two conversations from the first and one from the
\* second: the list ends with the first chunk's two examples before the
\* second chunk's one
C19_Witness ==
    /\ pc = "run_done"
    /\ chunk_no = 2
    /\ num_exchanges = 2
    /\ model_format = "Generic"
    /\ Len(generated_examples) = 3
    /\ generated_examples[3] = formatted_examples[1]
    /\ generated_examples[1] # generated_examples[3]
    /\ DecodedMapping(generated_examples[3]).question
         = NormalizeQuestion(ParenTexts.q)

----------------------------------------------------------------------------
(* INTJDatasetGenerator.generate_dataset (generate_intj_dataset.py)        *)
(* Its locals text, chunks, conversations and formatted_examples, the      *)
(* loop variable i of enumerate(chunks, 1) (0 while it is not bound) and   *)
(* attempt of generate_qa_pairs are kept in the variables of these names;  *)
(* output_file is the file on disk, example_no the position of the write   *)
(* loop.                                                                   *)

\* '--cut--', the chunk separator of the document
CutMark == <<"-", "-", "c", "u", "t", "-", "-">>

\* chunks of fewer words than this are skipped
MinChunkWords == 20

\* split_into_chunks: the stripped, non-empty pieces between the cut marks
\* that hold at least 20 words
IntjSplitIntoChunks(t) ==
    LET pieces == SplitAll(t, CutMark)
        stripped == [k \in 1..Len(pieces) |-> Strip(pieces[k])]
    IN  SelectSeq(stripped,
                  LAMBDA c : c # <<>> /\ Len(SplitWhitespace(c)) >= MinChunkWords)

\* the loop body of INTJDatasetGenerator.parse_qa_response: the
\* conversations it appends for part.  The questions are lowercased after
\* the prefix is stripped and the result trimmed.
IntjParsePart(part) ==
    IF /\ Contains(part, QUESTION) /\ Contains(part, ANSWER)
       /\ Contains(part, FOLLOW_UP) /\ Contains(part, FOLLOW_UP_ANSWER)
    THEN
        LET sections == SplitOnce(part, QUESTION)[2]
        IN  IF Contains(sections, ANSWER) THEN
                LET qr == SplitOnce(sections, ANSWER)
                IN  IF Contains(qr[2], FOLLOW_UP) THEN
                        LET af == SplitOnce(qr[2], FOLLOW_UP)
                        IN  IF Contains(af[2], FOLLOW_UP_ANSWER) THEN
                                LET ff == SplitOnce(af[2], FOLLOW_UP_ANSWER)
                                IN  EmitIfComplete(
                                      [question |->
                                         Lower(Strip(StripEnumPrefix(Strip(qr[1])))),
                                       answer |->
                                         Strip(CollapseNewlines(Strip(af[1]))),
                                       followup_question |->
                                         Lower(Strip(StripEnumPrefix(Strip(ff[1])))),
                                       followup_answer |->
                                         Strip(CollapseNewlines(Strip(ff[2])))])
                            ELSE <<>>
                    ELSE <<>>
            ELSE <<>>
    ELSE <<>>

\* INTJDatasetGenerator.parse_qa_response as one call
IntjParseResponse(r) ==
    LET ps == ConversationParts(r)
    IN  Flatten([k \in 1..Len(ps) |-> IntjParsePart(ps[k])])

\* json.dumps with its default ensure_ascii=True: a character outside ASCII
\* is written as a \u escape too
JsonStringAscii(s) ==
    <<"\"">>
      \o Flatten([k \in 1..Len(s) |->
                    IF s[k] = "U+00E9" THEN <<"\\", "u", "0", "0", "e", "9">>
                    ELSE JsonEscapeChar(s[k])])
      \o <<"\"">>

\* format_for_training: every conversation as a two-exchange Gemma text
IntjFormatForTraining(convs) ==
    [k \in 1..Len(convs) |->
       <<"{">> \o JsonString(Chars("text")) \o <<":", " ">>
         \o JsonStringAscii(FormatGemma(convs[k], 2).val[1].value.val)
         \o <<"}">>]

\* a chunk of the document: the word "w" 20 times
TwentyWords == [k \in 1..39 |-> IF k % 2 = 1 THEN "w" ELSE " "]

\* the documents: c chunks of 20 words between cut marks, after a piece
\* too short to be a chunk; the empty text is what a failed read gives
IntjTexts ==
    {<<>>} \cup
    {<<"w", " ", "w">>
       \o Flatten([k \in 1..c |-> CutMark \o <<"\n">> \o TwentyWords \o <<"\n">>]) :
         c \in 0..MaxChunks}

\* a line left in the output file by an earlier run
OldLine == <<"{", "}">>

IntjInit ==
    /\ pc = "intj_generate_dataset"
    /\ text \in IntjTexts
    /\ output_file \in {[exists |-> FALSE, lines |-> <<>>],
                        [exists |-> TRUE, lines |-> <<OldLine>>]}
    /\ mode = ""
    /\ successful_chunks = 0 /\ failed_chunks = 0 /\ total_examples = 0
    /\ example_no = 0
    /\ words_per_chunk = 1 /\ words = <<>> /\ i = 0 /\ chunks = <<>>
    /\ ParserIdle /\ FormatterIdle /\ RunIdle

\* the frame of the steps below: what belongs to the other functions
IntjFrame ==
    UNCHANGED <<words_per_chunk, words, preamble, segments, num_exchanges, parts,
                part_no, model_format, conv_no, custom_prompt, chunk_no,
                generated_examples, log>>

\* the check "if not text" left out: the run goes on after a failed read
IntjReadFailsGoesOn ==
    /\ pc = "intj_generate_dataset"
    /\ text = <<>>
    /\ pc' = "intj_choose_mode"
    /\ UNCHANGED <<text, i, chunks, response_text, conversations,
                   formatted_examples, attempt, intjVars>>
    /\ IntjFrame

\* read_intj_guide returned no text: "Failed to read the file. Exiting."
IntjReadFails ==
    /\ pc = "intj_generate_dataset"
    /\ text = <<>>
    /\ pc' = "intj_exit"
    /\ UNCHANGED <<text, i, chunks, response_text, conversations,
                   formatted_examples, attempt, intjVars>>
    /\ IntjFrame

\* the text is read and split, the counters are set to 0
IntjSplit ==
    /\ pc = "intj_generate_dataset"
    /\ text # <<>>
    /\ chunks' = IntjSplitIntoChunks(text)
    /\ successful_chunks' = 0 /\ failed_chunks' = 0 /\ total_examples' = 0
    /\ pc' = "intj_choose_mode"
    /\ UNCHANGED <<text, i, response_text, conversations, formatted_examples,
                   attempt, output_file, mode, example_no>>
    /\ IntjFrame

\* os.path.exists and the answer to "(o)verwrite or (a)ppend?"
IntjChooseMode ==
    /\ pc = "intj_choose_mode"
    /\ mode' \in (IF output_file.exists THEN {"a", "w"} ELSE {"w"})
    /\ pc' = "intj_open"
    /\ UNCHANGED <<text, i, chunks, response_text, conversations,
                   formatted_examples, attempt, output_file, successful_chunks,
                   failed_chunks, total_examples, example_no>>
    /\ IntjFrame

\* with open(self.output_file, mode, ...) as f: mode 'w' empties the file
IntjOpen ==
    /\ pc = "intj_open"
    /\ output_file' = [exists |-> TRUE,
                       lines |-> IF mode = "w" THEN <<>> ELSE output_file.lines]
    /\ pc' = "intj_loop"
    /\ UNCHANGED <<text, i, chunks, response_text, conversations,
                   formatted_examples, attempt, mode, successful_chunks,
                   failed_chunks, total_examples, example_no>>
    /\ IntjFrame

\* for i, chunk in enumerate(chunks, 1): the next chunk enters
\* generate_qa_pairs
IntjNextChunk ==
    /\ pc = "intj_loop"
    /\ i < Len(chunks)
    /\ i' = i + 1
    /\ attempt' = 0
    /\ pc' = "intj_attempt"
    /\ UNCHANGED <<text, chunks, response_text, conversations,
                   formatted_examples, intjVars>>
    /\ IntjFrame

\* an attempt whose response has text: it is parsed and returned
IntjResponseText ==
    /\ pc = "intj_attempt"
    /\ attempt < MaxRetries
    /\ \E r \in ProviderResponses :
         /\ response_text' = r
         /\ conversations' = IntjParseResponse(r)
    /\ pc' = "intj_chunk_result"
    /\ UNCHANGED <<text, i, chunks, formatted_examples, attempt, intjVars>>
    /\ IntjFrame

\* an attempt whose response is empty or whose call raises an Exception:
\* the loop goes on to the next attempt
IntjAttemptFails ==
    /\ pc = "intj_attempt"
    /\ attempt < MaxRetries
    /\ attempt' = attempt + 1
    /\ UNCHANGED <<pc, text, i, chunks, response_text, conversations,
                   formatted_examples, intjVars>>
    /\ IntjFrame

\* range(max_retries) is exhausted: return []
IntjRetriesExhausted ==
    /\ pc = "intj_attempt"
    /\ attempt >= MaxRetries
    /\ conversations' = <<>>
    /\ pc' = "intj_chunk_result"
    /\ UNCHANGED <<text, i, chunks, response_text, formatted_examples, attempt,
                   intjVars>>
    /\ IntjFrame

\* the else branch without its failed_chunks += 1
IntjChunkResultFailureUncounted ==
    /\ pc = "intj_chunk_result"
    /\ IF conversations # <<>>
       THEN /\ formatted_examples' = IntjFormatForTraining(conversations)
            /\ example_no' = 0
            /\ pc' = "intj_write"
       ELSE /\ pc' = "intj_loop"
            /\ UNCHANGED <<formatted_examples, example_no>>
    /\ UNCHANGED <<text, i, chunks, response_text, conversations, attempt,
                   output_file, mode, successful_chunks, total_examples,
                   failed_chunks>>
    /\ IntjFrame

\* generate_qa_pairs returned: a chunk with conversations is formatted and
\* goes to the write loop, a chunk without is counted as failed
IntjChunkResult ==
    /\ pc = "intj_chunk_result"
    /\ IF conversations # <<>>
       THEN /\ formatted_examples' = IntjFormatForTraining(conversations)
            /\ example_no' = 0
            /\ pc' = "intj_write"
            /\ UNCHANGED failed_chunks
       ELSE /\ failed_chunks' = failed_chunks + 1
            /\ pc' = "intj_loop"
            /\ UNCHANGED <<formatted_examples, example_no>>
    /\ UNCHANGED <<text, i, chunks, response_text, conversations, attempt,
                   output_file, mode, successful_chunks, total_examples>>
    /\ IntjFrame

\* f.write(example + '\n'); f.flush()
IntjWriteExample ==
    /\ pc = "intj_write"
    /\ example_no < Len(formatted_examples)
    /\ output_file' = [output_file EXCEPT
                         !.lines = Append(@, formatted_examples[example_no + 1])]
    /\ example_no' = example_no + 1
    /\ UNCHANGED <<pc, text, i, chunks, response_text, conversations,
                   formatted_examples, attempt, mode, successful_chunks,
                   failed_chunks, total_examples>>
    /\ IntjFrame

\* the write loop is over: the counters are updated
IntjChunkSaved ==
    /\ pc = "intj_write"
    /\ example_no >= Len(formatted_examples)
    /\ total_examples' = total_examples + Len(formatted_examples)
    /\ successful_chunks' = successful_chunks + 1
    /\ pc' = "intj_loop"
    /\ UNCHANGED <<text, i, chunks, response_text, conversations,
                   formatted_examples, attempt, output_file, mode,
                   failed_chunks, example_no>>
    /\ IntjFrame

\* enumerate(chunks, 1) is exhausted: the with block closes the file
IntjLoopEnds ==
    /\ pc = "intj_loop"
    /\ i >= Len(chunks)
    /\ pc' = "intj_summary"
    /\ UNCHANGED <<text, i, chunks, response_text, conversations,
                   formatted_examples, attempt, intjVars>>
    /\ IntjFrame

\* the steps before the try statement, the steps inside it, and of these
\* the ones where the loop variable i is bound
IntjBeforeTry == {"intj_generate_dataset", "intj_choose_mode"}
IntjInsideTry ==
    {"intj_open", "intj_loop", "intj_attempt", "intj_chunk_result", "intj_write"}

\* open() or a write raises an Exception (an OSError): "Error during
\* processing", then the final summary
IntjIOError ==
    /\ pc \in {"intj_open", "intj_write"}
    /\ pc' = "intj_summary"
    /\ UNCHANGED <<text, i, chunks, response_text, conversations,
                   formatted_examples, attempt, intjVars>>
    /\ IntjFrame

\* KeyboardInterrupt before the try statement: no handler, it leaves
\* generate_dataset
IntjInterruptBeforeTry ==
    /\ pc \in IntjBeforeTry
    /\ pc' = "intj_interrupted"
    /\ UNCHANGED <<text, i, chunks, response_text, conversations,
                   formatted_examples, attempt, intjVars>>
    /\ IntjFrame

\* KeyboardInterrupt inside the try statement: the handler prints
\* "Data saved up to chunk {i-1}".  Before the first iteration i is not
\* bound, the print raises UnboundLocalError and that leaves
\* generate_dataset; after it the final summary follows.
IntjInterruptInTry ==
    /\ pc \in IntjInsideTry
    /\ pc' = IF i = 0 THEN "intj_raised" ELSE "intj_summary"
    /\ UNCHANGED <<text, i, chunks, response_text, conversations,
                   formatted_examples, attempt, intjVars>>
    /\ IntjFrame

\* the final summary is printed and generate_dataset returns
IntjSummary ==
    /\ pc = "intj_summary"
    /\ pc' = "intj_done"
    /\ UNCHANGED <<text, i, chunks, response_text, conversations,
                   formatted_examples, attempt, intjVars>>
    /\ IntjFrame

IntjNext ==
    \/ IntjReadFails
    \/ IntjSplit
    \/ IntjChooseMode
    \/ IntjOpen
    \/ IntjNextChunk
    \/ IntjResponseText
    \/ IntjAttemptFails
    \/ IntjRetriesExhausted
    \/ IntjChunkResult
    \/ IntjWriteExample
    \/ IntjChunkSaved
    \/ IntjLoopEnds
    \/ IntjIOError
    \/ IntjInterruptBeforeTry
    \/ IntjInterruptInTry
    \/ IntjSummary

SpecIntj == IntjInit /\ [][IntjNext]_vars

----------------------------------------------------------------------------
(* Claims about INTJDatasetGenerator.generate_dataset.                     *)

\* s is a prefix of t
IsPrefix(s, t) == Len(s) <= Len(t) /\ SubSeq(t, 1, Len(s)) = s

\* the steps at which generate_dataset has stopped
IntjStopped == {"intj_exit", "intj_interrupted", "intj_raised", "intj_done"}

\* once the file is open no step removes or changes a line of it
IntjLinesKept ==
    [][(pc \in ((IntjInsideTry \ {"intj_open"}) \cup {"intj_summary"}))
         => IsPrefix(output_file.lines, (output_file').lines)]_vars

\* C20: an interruption at any point of the run leaves every example line
\* already written to the output file in place, and the run still reaches
\* its final summary: a run that read its text never stops anywhere but
\* after the summary.
C20_InterruptKeepsLinesAndSummarizes ==
    pc \in IntjStopped /\ text # <<>> => pc = "intj_done"

\* C21: when the document cannot be read (read_intj_guide reports the error
\* and returns no text) the run stops before chunking: it is at its start,
\* has exited, or was interrupted there; no chunk exists, no provider call
\* was made or answered, nothing was formatted, and the output file was
\* neither opened nor changed.
C21_ReadFailureStopsBeforeChunking ==
    text = <<>> /\ pc \in IntjBeforeTry \cup IntjInsideTry \cup IntjStopped
                              \cup {"intj_summary"}
      => /\ pc \in {"intj_generate_dataset", "intj_exit", "intj_interrupted"}
         /\ chunks = <<>> /\ i = 0
         /\ attempt = 0 /\ response_text = <<>> /\ conversations = <<>>
         /\ formatted_examples = <<>>
         /\ mode = "" /\ total_examples = 0
         /\ output_file \in {[exists |-> FALSE, lines |-> <<>>],
                             [exists |-> TRUE, lines |-> <<OldLine>>]}

\* a failed read has ended the run, the file of an earlier run untouched
C21_Witness ==
    /\ pc = "intj_exit" /\ text = <<>>
    /\ output_file = [exists |-> TRUE, lines |-> <<OldLine>>]

----------------------------------------------------------------------------
(* Claims about the exchange depth and the field boundaries of a parsed    *)
(* conversation.                                                           *)

\* the number of question/answer pairs a conversation holds
ExchangesOf(conv) ==
    Cardinality({p \in {<<"question", "answer">>,
                        <<"followup_question", "followup_answer">>} :
                   p[1] \in DOMAIN conv /\ p[2] \in DOMAIN conv})

\* C22: for every num_exchanges = N >= 1, every conversation returned by
\* parse_qa_response(raw, N) holds exactly N exchanges: N question/answer
\* pairs and no other field.
C22_ConversationsHoldNExchanges ==
    pc = "parse_done" /\ num_exchanges >= 1
      => \A k \in 1..Len(conversations) :
            /\ ExchangesOf(conversations[k]) = num_exchanges
            /\ Cardinality(DOMAIN conversations[k]) = 2 * num_exchanges

\* the text of s after the first occurrence of sep, and after the last one
AfterFirst(s, sep) == SplitOnce(s, sep)[2]
AfterLast(s, sep) == LET ps == SplitAll(s, sep) IN ps[Len(ps)]

\* the text of s up to the first occurrence of sep
UpTo(s, sep) == SplitOnce(s, sep)[1]

\* the fields the field boundaries give for a segment of two exchanges:
\* the follow-up answer begins after the last FOLLOW-UP ANSWER:
FieldsByBoundaries(part) ==
    LET afterQ == AfterFirst(part, QUESTION)
        afterA == AfterFirst(afterQ, ANSWER)
        afterF == AfterFirst(afterA, FOLLOW_UP)
    IN  [question |-> NormalizeQuestion(UpTo(afterQ, ANSWER)),
         answer |-> NormalizeAnswer(UpTo(afterA, FOLLOW_UP)),
         followup_question |-> NormalizeQuestion(UpTo(afterF, FOLLOW_UP_ANSWER)),
         followup_answer |-> NormalizeAnswer(AfterLast(part, FOLLOW_UP_ANSWER))]

\* C23: in a segment parsed with num_exchanges > 1, question is the text
\* between QUESTION: and the next ANSWER:, answer the text between that
\* ANSWER: and FOLLOW-UP:, followup_question the text between FOLLOW-UP: and
\* FOLLOW-UP ANSWER:, and followup_answer everything after the last
\* FOLLOW-UP ANSWER: of the segment (each normalized), also when the segment
\* holds FOLLOW-UP ANSWER: more than once.
C23_FieldBoundaries ==
    (/\ pc = "parse_done" /\ num_exchanges > 1
     /\ Len(parts) = 1 /\ Len(conversations) = 1)
      => conversations[1] = FieldsByBoundaries(parts[1])

----------------------------------------------------------------------------
(* DatasetGenerator.parse_qa_response of app.py, the copy of the parser    *)
(* the Streamlit page runs.                                                *)

\* the else branch with the questions left in their case
AppParseMultiKeepCase(part) ==
    IF /\ Contains(part, QUESTION) /\ Contains(part, ANSWER)
       /\ Contains(part, FOLLOW_UP) /\ Contains(part, FOLLOW_UP_ANSWER)
    THEN
        LET qr == SplitOnce(SplitOnce(part, QUESTION)[2], ANSWER)
        IN  IF Len(qr) = 2 /\ Contains(qr[2], FOLLOW_UP) THEN
                LET af == SplitOnce(qr[2], FOLLOW_UP)
                IN  IF Contains(af[2], FOLLOW_UP_ANSWER) THEN
                        LET ff == SplitOnce(af[2], FOLLOW_UP_ANSWER)
                        IN  EmitIfComplete(
                              [question |-> NormalizeQuestionKeepCase(qr[1]),
                               answer |-> NormalizeAnswer(af[1]),
                               followup_question |-> NormalizeQuestionKeepCase(ff[1]),
                               followup_answer |-> NormalizeAnswer(ff[2])])
                    ELSE <<>>
            ELSE <<>>
    ELSE <<>>

\* the else branch of app.py's loop body: the four delimiters are looked
\* for in part first, then the same nested splits follow
AppParseMulti(part) ==
    IF /\ Contains(part, QUESTION) /\ Contains(part, ANSWER)
       /\ Contains(part, FOLLOW_UP) /\ Contains(part, FOLLOW_UP_ANSWER)
    THEN
        LET sections == SplitOnce(part, QUESTION)[2]
        IN  IF Contains(sections, ANSWER) THEN
                LET qr == SplitOnce(sections, ANSWER)
                IN  IF Contains(qr[2], FOLLOW_UP) THEN
                        LET af == SplitOnce(qr[2], FOLLOW_UP)
                        IN  IF Contains(af[2], FOLLOW_UP_ANSWER) THEN
                                LET ff == SplitOnce(af[2], FOLLOW_UP_ANSWER)
                                IN  EmitIfComplete(
                                      [question |-> NormalizeQuestion(qr[1]),
                                       answer |-> NormalizeAnswer(af[1]),
                                       followup_question |-> NormalizeQuestion(ff[1]),
                                       followup_answer |-> NormalizeAnswer(ff[2])])
                            ELSE <<>>
                    ELSE <<>>
            ELSE <<>>
    ELSE <<>>

\* the branch num_exchanges == 1 of app.py's loop body
AppParseSingle(part) ==
    IF Contains(part, QUESTION) /\ Contains(part, ANSWER) THEN
        LET sections == SplitOnce(part, QUESTION)[2]
        IN  IF Contains(sections, ANSWER) THEN
                LET qa == SplitOnce(sections, ANSWER)
                IN  EmitIfComplete([question |-> NormalizeQuestion(qa[1]),
                                    answer |-> NormalizeAnswer(qa[2])])
            ELSE <<>>
    ELSE <<>>

\* app.py's parse_qa_response as one call
AppParseResponse(r, n) ==
    LET ps == ConversationParts(r)
    IN  Flatten([k \in 1..Len(ps) |->
                   IF n = 1 THEN AppParseSingle(ps[k]) ELSE AppParseMulti(ps[k])])

\* C24: the duplicated parsers are the same function: for num_exchanges 1
\* and 2 the list TextProcessor.parse_qa_response returns for a response is
\* the list app.py's parse_qa_response returns for it, and for
\* num_exchanges = 2 it is also the list INTJDatasetGenerator's returns.
C24_ParsersAgree ==
    pc = "parse_done" /\ num_exchanges \in {1, 2}
      => /\ conversations = AppParseResponse(response_text, num_exchanges)
         /\ num_exchanges = 2 => conversations = IntjParseResponse(response_text)

\* a response of three segments parsed with two exchanges: two conversations
\* returned and one segment dropped
C24_Witness ==
    /\ pc = "parse_done" /\ num_exchanges = 2
    /\ Len(segments) = 3 /\ Len(conversations) = 2
    /\ AppParseResponse(response_text, 2) = conversations

----------------------------------------------------------------------------
(* DatasetGenerator.format_for_model of app.py, the copy of the emitter    *)
(* the Streamlit page runs.                                                *)

\* "<|im_start|>user\n", "<|im_start|>assistant\n" and "<|im_end|>"
ImStartUser ==
    <<"<", "|", "i", "m", "_", "s", "t", "a", "r", "t", "|", ">", "u",
    "s", "e", "r", "\n">>
ImStartAssistant ==
    <<"<", "|", "i", "m", "_", "s", "t", "a", "r", "t", "|", ">", "a",
    "s", "s", "i", "s", "t", "a", "n", "t", "\n">>
ImEnd ==
    <<"<", "|", "i", "m", "_", "e", "n", "d", "|", ">">>

\* the branch "ChatML" of app.py's chain
AppFormatChatML(conv, n) ==
    IF n = 1 THEN
        PyDict(<<Item("text", PyStr(
            ImStartUser \o conv.question \o ImEnd \o <<"\n">>
              \o ImStartAssistant \o conv.answer \o ImEnd))>>)
    ELSE
        PyDict(<<Item("text", PyStr(
            ImStartUser \o conv.question \o ImEnd \o <<"\n">>
              \o ImStartAssistant \o conv.answer \o ImEnd \o <<"\n">>
              \o ImStartUser \o conv.followup_question \o ImEnd \o <<"\n">>
              \o ImStartAssistant \o conv.followup_answer \o ImEnd))>>)

\* one {"from": ..., "value": ...} turn
ShareGPTTurn(from, value) ==
    PyDict(<<[key |-> <<"f", "r", "o", "m">>, value |-> PyStr(from)],
             [key |-> <<"v", "a", "l", "u", "e">>, value |-> PyStr(value)]>>)

\* "human" and "gpt"
Human == <<"h", "u", "m", "a", "n">>
Gpt == <<"g", "p", "t">>

\* the branch "ShareGPT" of app.py's chain
AppFormatShareGPT(conv, n) ==
    LET key == <<"c", "o", "n", "v", "e", "r", "s", "a", "t", "i", "o", "n", "s">>
    IN  IF n = 1 THEN
            PyDict(<<[key |-> key, value |-> PyList(
                <<ShareGPTTurn(Human, conv.question),
                  ShareGPTTurn(Gpt, conv.answer)>>)]>>)
        ELSE
            PyDict(<<[key |-> key, value |-> PyList(
                <<ShareGPTTurn(Human, conv.question),
                  ShareGPTTurn(Gpt, conv.answer),
                  ShareGPTTurn(Human, conv.followup_question),
                  ShareGPTTurn(Gpt, conv.followup_answer)>>)]>>)

\* the names app.py's chain has a branch for
AppFormats == {"Gemma", "Llama", "ChatML", "Alpaca", "ShareGPT"}

\* the if / elif chain of app.py's loop body: the Gemma, Llama and Alpaca
\* branches build what _format_gemma, _format_llama and _format_alpaca
\* build; there is no branch for "OpenAI"
AppFormatOne(conv, fmt, n) ==
    CASE fmt = "Gemma" -> FormatGemma(conv, n)
      [] fmt = "Llama" -> FormatLlama(conv, n)
      [] fmt = "ChatML" -> AppFormatChatML(conv, n)
      [] fmt = "Alpaca" -> FormatAlpaca(conv, n)
      [] fmt = "ShareGPT" -> AppFormatShareGPT(conv, n)
      [] OTHER -> FormatGeneric(conv)

\* the branch taken subscripts conv with a key it does not hold
AppFormatRaises(conv, fmt, n) ==
    /\ fmt \in AppFormats
    /\ ~((IF n = 1 THEN {"question", "answer"}
          ELSE {"question", "answer", "followup_question", "followup_answer"})
            \subseteq DOMAIN conv)

\* json.dumps(conversation, ensure_ascii=False) of app.py's loop body
AppSerializeOne(conv, fmt, n) == JsonDumps(AppFormatOne(conv, fmt, n))

\* the format names of the table of target formats: the three chat
\* templates, the role-message list, instruction/output, and generic
TableFormats == {"Gemma", "Llama", "ChatML", "OpenAI", "Alpaca", "Generic"}

\* C25: the duplicated emitters are the same function: for every
\* conversation, num_exchanges 1 and 2 and every format name of the table,
\* app.py's format_for_model serializes a conversation to the record
\* OutputFormatter.format_for_model has written for it, and raises when
\* OutputFormatter's raises.
C25_EmittersAgree ==
    (/\ pc \in {"format_loop", "format_done", "format_raised"}
     /\ num_exchanges \in {1, 2}
     /\ model_format \in TableFormats)
      => /\ \A k \in 1..Len(formatted_examples) :
              /\ ~AppFormatRaises(conversations[k], model_format, num_exchanges)
              /\ formatted_examples[k]
                   = AppSerializeOne(conversations[k], model_format, num_exchanges)
         /\ pc = "format_raised"
              => AppFormatRaises(conversations[conv_no + 1], model_format,
                                 num_exchanges)

----------------------------------------------------------------------------
(* The prompt of a chunk: create_prompt_template followed by               *)
(* prompt_template.format(chunk=chunk).                                    *)

\* the decimal numeral of a count below 10
Numeral(k) == <<<<"0">>, <<"1">>, <<"2">>, <<"3">>, <<"4">>, <<"5">>, <<"6">>,
                <<"7">>, <<"8">>, <<"9">>>>[k + 1]

\* the fixed texts of the template, in their order: before the custom
\* prompt, up to num_questions, up to num_exchanges, up to the format
\* instructions, up to the chunk, up to num_questions, and the end
TemplateHead ==
    <<"\n">>
TemplateBasedOn ==
    <<"\n", "\n", "B", "a", "s", "e", "d", " ", "o", "n", " ", "t", "h",
      "e", " ", "f", "o", "l", "l", "o", "w", "i", "n", "g", " ", "t", "e",
      "x", "t", ",", " ", "g", "e", "n", "e", "r", "a", "t", "e", " ">>
TemplatePairsWith ==
    <<" ", "c", "o", "n", "v", "e", "r", "s", "a", "t", "i", "o", "n", " ",
      "p", "a", "i", "r", "s", " ", "w", "i", "t", "h", " ">>
TemplateRequirements ==
    <<" ", "e", "x", "c", "h", "a", "n", "g", "e", "(", "s", ")", " ", "e",
      "a", "c", "h", ".", "\n", "\n", "R", "e", "q", "u", "i", "r", "e",
      "m", "e", "n", "t", "s", ":", "\n", "-", " ", "U", "s", "e", "r", " ",
      "q", "u", "e", "s", "t", "i", "o", "n", "s", " ", "s", "h", "o", "u",
      "l", "d", " ", "b", "e", " ", "n", "a", "t", "u", "r", "a", "l", " ",
      "a", "n", "d", " ", "u", "s", "e", " ", "l", "o", "w", "e", "r", "c",
      "a", "s", "e", "\n", "-", " ", "A", "I", " ", "r", "e", "s", "p", "o",
      "n", "s", "e", "s", " ", "s", "h", "o", "u", "l", "d", " ", "b", "e",
      " ", "i", "n", "f", "o", "r", "m", "a", "t", "i", "v", "e", " ", "a",
      "n", "d", " ", "b", "a", "s", "e", "d", " ", "o", "n", " ", "t", "h",
      "e", " ", "p", "r", "o", "v", "i", "d", "e", "d", " ", "t", "e", "x",
      "t", "\n", "-", " ", "C", "o", "v", "e", "r", " ", "t", "h", "e", " ",
      "m", "a", "j", "o", "r", " ", "c", "o", "n", "c", "e", "p", "t", "s",
      " ", "m", "e", "n", "t", "i", "o", "n", "e", "d", " ", "i", "n", " ",
      "t", "h", "e", " ", "t", "e", "x", "t", "\n", "-", " ", "E", "a", "c",
      "h", " ", "c", "o", "n", "v", "e", "r", "s", "a", "t", "i", "o", "n",
      " ", "s", "h", "o", "u", "l", "d", " ", "f", "e", "e", "l", " ", "n",
      "a", "t", "u", "r", "a", "l", " ", "a", "n", "d", " ", "e", "d", "u",
      "c", "a", "t", "i", "o", "n", "a", "l", "\n", "\n", "\n">>
TemplateTextContent ==
    <<"\n", "\n", "T", "e", "x", "t", " ", "c", "o", "n", "t", "e", "n",
      "t", ":", "\n">>
TemplateGenerateExactly ==
    <<"\n", "\n", "G", "e", "n", "e", "r", "a", "t", "e", " ", "e", "x",
      "a", "c", "t", "l", "y", " ">>
TemplateEnd ==
    <<" ", "c", "o", "n", "v", "e", "r", "s", "a", "t", "i", "o", "n", "s",
      " ", "t", "h", "a", "t", " ", "t", "h", "o", "r", "o", "u", "g", "h",
      "l", "y", " ", "c", "o", "v", "e", "r", " ", "t", "h", "e", " ", "c",
      "o", "n", "t", "e", "n", "t", ":", "\n">>

\* format_instructions for num_exchanges == 1
FormatInstructionsSingle ==
    <<"F", "o", "r", "m", "a", "t", " ", "f", "o", "r", " ", "e", "a", "c",
      "h", " ", "c", "o", "n", "v", "e", "r", "s", "a", "t", "i", "o", "n",
      ":", "\n", "C", "O", "N", "V", "E", "R", "S", "A", "T", "I", "O", "N",
      " ", "X", ":", "\n", "Q", "U", "E", "S", "T", "I", "O", "N", ":", " ",
      "[", "u", "s", "e", "r", " ", "q", "u", "e", "s", "t", "i", "o", "n",
      ",", " ", "a", "l", "l", " ", "l", "o", "w", "e", "r", "c", "a", "s",
      "e", "]", "\n", "A", "N", "S", "W", "E", "R", ":", " ", "[", "A", "I",
      " ", "r", "e", "s", "p", "o", "n", "s", "e", " ", "b", "a", "s", "e",
      "d", " ", "o", "n", " ", "t", "e", "x", "t", "]", "\n">>

\* format_instructions of the else branch: its text up to the follow-up
\* line, the follow-up line, and the follow-up answer line
FormatInstructionsStart ==
    <<"F", "o", "r", "m", "a", "t", " ", "f", "o", "r", " ", "e", "a", "c",
      "h", " ", "c", "o", "n", "v", "e", "r", "s", "a", "t", "i", "o", "n",
      ":", "\n", "C", "O", "N", "V", "E", "R", "S", "A", "T", "I", "O", "N",
      " ", "X", ":", "\n", "Q", "U", "E", "S", "T", "I", "O", "N", ":", " ",
      "[", "i", "n", "i", "t", "i", "a", "l", " ", "q", "u", "e", "s", "t",
      "i", "o", "n", " ", "f", "r", "o", "m", " ", "u", "s", "e", "r", ",",
      " ", "a", "l", "l", " ", "l", "o", "w", "e", "r", "c", "a", "s", "e",
      "]", "\n", "A", "N", "S", "W", "E", "R", ":", " ", "[", "A", "I", " ",
      "r", "e", "s", "p", "o", "n", "s", "e", " ", "b", "a", "s", "e", "d",
      " ", "o", "n", " ", "t", "e", "x", "t", "]", "\n">>
FollowUpLine ==
    <<"F", "O", "L", "L", "O", "W", "-", "U", "P", ":", " ", "[", "f", "o",
      "l", "l", "o", "w", "-", "u", "p", " ", "q", "u", "e", "s", "t", "i",
      "o", "n", ",", " ", "a", "l", "l", " ", "l", "o", "w", "e", "r", "c",
      "a", "s", "e", "]">>
FollowUpAnswerLine ==
    <<"F", "O", "L", "L", "O", "W", "-", "U", "P", " ", "A", "N", "S", "W",
      "E", "R", ":", " ", "[", "A", "I", " ", "r", "e", "s", "p", "o", "n",
      "s", "e", " ", "t", "o", " ", "f", "o", "l", "l", "o", "w", "-", "u",
      "p", ",", " ", "a", "l", "s", "o", " ", "b", "a", "s", "e", "d", " ",
      "o", "n", " ", "t", "e", "x", "t", "]">>

\* line * (num_exchanges - 1)
Repeat(line, k) == Flatten([j \in 1..k |-> line])

\* format_instructions
FormatInstructions(n) ==
    IF n = 1 THEN FormatInstructionsSingle
    ELSE FormatInstructionsStart \o Repeat(FollowUpLine, n - 1) \o <<"\n">>
           \o Repeat(FollowUpAnswerLine, n - 1) \o <<"\n">>

RECURSIVE TemplateFormat(_, _, _)
\* what str.format writes for the custom prompt inside the template, read
\* from position k, when it does not raise: "{{" and "}}" become one brace
\* and "{chunk}" becomes the chunk
TemplateFormat(s, k, chunk) ==
    IF k > Len(s) THEN <<>>
    ELSE IF s[k] = "{" /\ k < Len(s) /\ s[k + 1] = "{"
        THEN <<"{">> \o TemplateFormat(s, k + 2, chunk)
    ELSE IF s[k] = "}" /\ k < Len(s) /\ s[k + 1] = "}"
        THEN <<"}">> \o TemplateFormat(s, k + 2, chunk)
    ELSE IF s[k] = "{"
        THEN chunk \o TemplateFormat(s, k + Len(ChunkField) + 2, chunk)
    ELSE <<s[k]>> \o TemplateFormat(s, k + 1, chunk)

\* create_prompt_template(custom_prompt, num_questions, n).format(chunk=chunk)
\* for a custom prompt str.format does not raise on
BuiltPrompt(prompt, num_questions, n, chunk) ==
    TemplateHead \o TemplateFormat(prompt, 1, chunk)
      \o TemplateBasedOn \o Numeral(num_questions)
      \o TemplatePairsWith \o Numeral(n)
      \o TemplateRequirements \o FormatInstructions(n)
      \o TemplateTextContent \o chunk
      \o TemplateGenerateExactly \o Numeral(num_questions) \o TemplateEnd

\* config['questions_per_chunk'] of the runs of the model
QuestionsPerChunk == 1

\* C26: for every custom instruction string, every chunk and every
\* num_exchanges >= 1 the prompt of a chunk is built without error, and it
\* contains the custom instructions verbatim, the chunk verbatim, and every
\* delimiter token the parser requires for the exchange depth.
C26_PromptBuiltVerbatim ==
    /\ pc # "run_raised"
    /\ pc = "run_attempt" /\ attempt = 0 =>
         LET chunk == chunks[chunk_no + 1]
             prompt == BuiltPrompt(custom_prompt, QuestionsPerChunk,
                                   num_exchanges, chunk)
         IN  /\ Contains(prompt, custom_prompt)
             /\ Contains(prompt, chunk)
             /\ \A d \in {CONVERSATION, QUESTION, ANSWER} : Contains(prompt, d)
             /\ num_exchanges > 1 =>
                  \A d \in {FOLLOW_UP, FOLLOW_UP_ANSWER} : Contains(prompt, d)

\* the step that ends the processing of a chunk: the counters are updated
\* and the loop takes over again
IntjChunkEnds == pc \in {"intj_chunk_result", "intj_write"} /\ pc' = "intj_loop"

----------------------------------------------------------------------------
(* Claims about the attempts of a chunk.                                   *)

\* chunk c has put examples into the run's list
Extended(c) == \E k \in 1..Len(log) : log[k].op = "extend" /\ log[k].chunk = c

\* C28: a non-empty provider response ends the attempts for its chunk: it
\* is the last provider call of the chunk, whether or not it parses to a
\* conversation, and what generate_qa_pairs returns is its parse.
C28_TextResponseEndsAttempts ==
    /\ \A c \in 1..Len(chunks) :
          \A k \in 1..Len(CallsOf(c)) :
             CallsOf(c)[k].outcome = "text" => k = Len(CallsOf(c))
    /\ pc = "run_chunk_result" /\ log[Len(log)].outcome = "text"
         => conversations = ParseResponse(response_text, num_exchanges)

\* the first chunk got a response with a question and no answer on its
\* first attempt: no example, no second call, and the run went on
C28_Witness ==
    /\ pc = "run_done" /\ Len(chunks) = 2
    /\ CallsOf(1) = <<CallEvent(1, 0, "text")>>
    /\ ~Extended(1)
    /\ CallsOf(2) # <<>>

----------------------------------------------------------------------------
(* Claims about the segment token inside a response text.                  *)

\* C29: no answer and no follow-up answer of a returned conversation
\* contains the token CONVERSATION: no part the loop runs on contains it,
\* an occurrence inside an answer ends the segment there, and the text after
\* it is a part of its own.
C29_NoSegmentTokenInAnswers ==
    /\ \A k \in 1..Len(parts) : ~Contains(parts[k], CONVERSATION)
    /\ \A k \in 1..Len(conversations) :
          \A f \in DOMAIN conversations[k] \cap {"answer", "followup_answer"} :
             ~Contains(conversations[k][f], CONVERSATION)
    /\ pc = "parse_done" => Len(parts) = TokenCount(response_text)

\* the segment whose answer is " see CONVERSATION 2\n", parsed with one
\* exchange: the answer ends at the token and what follows is a second part
C29_Witness ==
    /\ pc = "parse_done" /\ num_exchanges = 1
    /\ segments = <<Segment(ShapeSingle, TokenAnswerTexts)>>
    /\ Len(parts) = 2
    /\ Len(conversations) = 1
    /\ conversations[1].answer = <<"s", "e", "e">>

----------------------------------------------------------------------------
(* Claims about the final summary of INTJDatasetGenerator.generate_dataset. *)

\* the example lines this run has written: the lines of the file but the
\* one an earlier run left, which is no example line of this run
LinesWrittenThisRun ==
    Len(SelectSeq(output_file.lines, LAMBDA line : line # OldLine))

\* C30: whenever the final summary is reached, also after an interruption
\* or a write error part-way through a chunk, the total_examples it reports
\* is the number of example lines written to the output file during this
\* run.
C30_SummaryCountsWrittenLines ==
    pc \in {"intj_summary", "intj_done"} => total_examples = LinesWrittenThisRun

=============================================================================
